---- MODULE Spec2Model ----
(***************************************************************************)
(* Maternal-health risk pipeline: input validation, feature engineering,   *)
(* scaling, classification and alert generation (src/pipeline.py,          *)
(* src/features.py, src/config.py) and the API wrapper around predict      *)
(* (src/app.py, MaternalHealthModel.predict_risk).                         *)
(*                                                                         *)
(* Probabilities are integers in percent (70 is 0.70).  Sequences are      *)
(* 1-based, so an index i of the model is index i-1 of the Python code.    *)
(***************************************************************************)
EXTENDS Integers, Sequences, FiniteSets, TLC

VARIABLES pipeline, call, shap_explainer, cached_shap_values, redis, requests,
          np_random

vars ==
    <<pipeline, call, shap_explainer, cached_shap_values, redis, requests, np_random>>

\* The state of the explanation service (shap_utils.py and the cache of the
\* routes of app.py).
shap_vars == <<shap_explainer, cached_shap_values, redis>>

\* The requests to /shap/global in flight, with their worker threads, and
\* NumPy's process-wide random generator.
worker_vars == <<requests, np_random>>

(***************************************************************************)
(* Bounds of the model.                                                    *)
(***************************************************************************)
\* Largest number of rows of an input frame.
MaxRows == 2

(***************************************************************************)
(* Helpers for sequences.                                                  *)
(***************************************************************************)
Range(s) == {s[i] : i \in DOMAIN s}

RECURSIVE SeqSum(_)
SeqSum(s) == IF s = <<>> THEN 0 ELSE Head(s) + SeqSum(Tail(s))

\* list(classes_).index(name): the first position holding name.
IndexOf(s, x) == CHOOSE i \in DOMAIN s : s[i] = x /\ \A j \in 1..(i - 1) : s[j] # x

\* [c for c in cols if P(c)], keeping the order of cols.
RECURSIVE FilterSeq(_, _)
FilterSeq(s, keep) ==
    IF s = <<>> THEN <<>>
    ELSE IF Head(s) \in keep THEN <<Head(s)>> \o FilterSeq(Tail(s), keep)
    ELSE FilterSeq(Tail(s), keep)

(***************************************************************************)
(* config.py: ModelConfig.                                                 *)
(***************************************************************************)
high_risk_threshold == 70
mid_risk_threshold == 40
low_risk_confidence == 90

\* ModelConfig.__post_init__: the default clinical ranges (min, max).
clinical_ranges ==
    [Age |-> <<13, 60>>, SystolicBP |-> <<70, 200>>, DiastolicBP |-> <<40, 120>>,
     BS |-> <<1, 30>>, BodyTemp |-> <<95, 104>>, HeartRate |-> <<40, 200>>]

\* The attributes _generate_alert probes with hasattr.
ThresholdAttrs == {"high_risk_threshold", "mid_risk_threshold", "low_risk_confidence"}

\* A config object: `has` is the set of threshold attributes the object
\* carries (a config unpickled from an older artifact may lack one).
ModelConfig(has, high, mid, low) ==
    [has |-> has, high_risk_threshold |-> high, mid_risk_threshold |-> mid,
     low_risk_confidence |-> low, clinical_ranges |-> clinical_ranges]

DefaultConfig ==
    ModelConfig(ThresholdAttrs, high_risk_threshold, mid_risk_threshold,
                low_risk_confidence)

\* The configs the model is run with: the defaults, thresholds that overlap
\* the other way round, and configs lacking one threshold attribute.
ConfigSamples ==
    {DefaultConfig, ModelConfig(ThresholdAttrs, 40, 70, 50)}
    \cup {ModelConfig(ThresholdAttrs \ {a}, high_risk_threshold, mid_risk_threshold,
                      low_risk_confidence) : a \in ThresholdAttrs}

(***************************************************************************)
(* pipeline.py: MaternalRiskPipeline.                                      *)
(***************************************************************************)
expected_classes == <<"high risk", "mid risk", "low risk">>

\* _setup_risk_indices: TRUE when it raises ValueError.
SetupRaises(classes) == \E r \in Range(expected_classes) : r \notin Range(classes)

\* The explainer __init__ and load_model end with: None ("none"), or a SHAP
\* explainer named by what its shap_values does: it raises ("raises"),
\* returns a list of per-class arrays ("list") or one samples x features x
\* classes array ("ndarray").
ExplainerKinds == {"none", "raises", "list", "ndarray"}

\* __init__ followed by _setup_risk_indices, for a label encoder with the given
\* classes_; `model` is the fitted classifier, `scaler` the fitted scaler and
\* `explainer` the outcome of the explainer initialisation.
MaternalRiskPipeline(classes, config, model, scaler, explainer) ==
    [classes |-> classes, config |-> config, model |-> model,
     scaler |-> scaler,
     high_risk_idx |-> IndexOf(classes, "high risk"),
     mid_risk_idx |-> IndexOf(classes, "mid risk"),
     low_risk_idx |-> IndexOf(classes, "low risk"),
     version |-> "1.0.0",
     shap_explainer |-> explainer]

\* np.argmax: the first index of the largest value.
ArgMax(v) == CHOOSE i \in DOMAIN v :
    /\ \A j \in DOMAIN v : v[j] <= v[i]
    /\ \A j \in 1..(i - 1) : v[j] < v[i]

\* np.isclose(probabilities.sum(), 1, rtol=0.01), in percent.
SumTolerancePct == 1
IsClose(total) == total - 100 <= SumTolerancePct /\ 100 - total <= SumTolerancePct

NoAlert == [level |-> "", urgency |-> "", risk_score |-> 0, risk_category |-> ""]

Alert(level, urgency, score, category) ==
    [level |-> level, urgency |-> urgency, risk_score |-> score,
     risk_category |-> category]

ErrorAlert == Alert("ERROR", "UNKNOWN", 0, "ERROR")

\* AlertInputError without the sum check (a mutant).
AlertInputError_NoSumCheck(self, p) ==
    IF ~p.ndarray THEN "not_ndarray"
    ELSE IF Len(p.v) # Len(self.classes) THEN "count"
    ELSE ""

\* The input checks at the head of _generate_alert, which sit outside its try
\* block: the name of the ValueError raised, or "" when the checks pass.
\* p is the argument: [ndarray |-> is it a NumPy array, v |-> its values].
AlertInputError(self, p) ==
    IF ~p.ndarray THEN "not_ndarray"
    ELSE IF ~IsClose(SeqSum(p.v)) THEN "sum"
    ELSE IF Len(p.v) # Len(self.classes) THEN "count"
    ELSE ""

\* AlertBody with exclusive comparisons (a mutant: > written for >=).
AlertBody_StrictThresholds(self, p) ==
    LET max_prob_idx == ArgMax(p.v)
        max_prob == p.v[max_prob_idx]
        predicted_risk_category == self.classes[max_prob_idx]
        cfg == self.config
    IN  IF ThresholdAttrs \ cfg.has # {} THEN ErrorAlert
        ELSE IF max_prob_idx = self.high_risk_idx /\ max_prob > cfg.high_risk_threshold
            THEN Alert("HIGH_ALERT", "CRITICAL", max_prob, predicted_risk_category)
        ELSE IF max_prob_idx = self.mid_risk_idx /\ max_prob > cfg.mid_risk_threshold
            THEN Alert("MEDIUM_ALERT", "MODERATE", max_prob, predicted_risk_category)
        ELSE IF max_prob_idx = self.low_risk_idx /\ max_prob > cfg.low_risk_confidence
            THEN Alert("LOW_ALERT", "LOW", max_prob, predicted_risk_category)
        ELSE Alert("NO_SPECIFIC_ALERT", "LOW", max_prob, predicted_risk_category)

\* AlertBody without the hasattr checks (a mutant: a config lacking a
\* threshold is read as if it had the default).
AlertBody_NoAttrCheck(self, p) ==
    LET max_prob_idx == ArgMax(p.v)
        max_prob == p.v[max_prob_idx]
        predicted_risk_category == self.classes[max_prob_idx]
        cfg == self.config
    IN  IF max_prob_idx = self.high_risk_idx /\ max_prob >= cfg.high_risk_threshold
            THEN Alert("HIGH_ALERT", "CRITICAL", max_prob, predicted_risk_category)
        ELSE IF max_prob_idx = self.mid_risk_idx /\ max_prob >= cfg.mid_risk_threshold
            THEN Alert("MEDIUM_ALERT", "MODERATE", max_prob, predicted_risk_category)
        ELSE IF max_prob_idx = self.low_risk_idx /\ max_prob >= cfg.low_risk_confidence
            THEN Alert("LOW_ALERT", "LOW", max_prob, predicted_risk_category)
        ELSE Alert("NO_SPECIFIC_ALERT", "LOW", max_prob, predicted_risk_category)

\* AlertBody with the mid-risk comparison reversed (a mutant: <= for >=).
AlertBody_ReversedMid(self, p) ==
    LET max_prob_idx == ArgMax(p.v)
        max_prob == p.v[max_prob_idx]
        predicted_risk_category == self.classes[max_prob_idx]
        cfg == self.config
    IN  IF ThresholdAttrs \ cfg.has # {} THEN ErrorAlert
        ELSE IF max_prob_idx = self.high_risk_idx /\ max_prob >= cfg.high_risk_threshold
            THEN Alert("HIGH_ALERT", "CRITICAL", max_prob, predicted_risk_category)
        ELSE IF max_prob_idx = self.mid_risk_idx /\ max_prob <= cfg.mid_risk_threshold
            THEN Alert("MEDIUM_ALERT", "MODERATE", max_prob, predicted_risk_category)
        ELSE IF max_prob_idx = self.low_risk_idx /\ max_prob >= cfg.low_risk_confidence
            THEN Alert("LOW_ALERT", "LOW", max_prob, predicted_risk_category)
        ELSE Alert("NO_SPECIFIC_ALERT", "LOW", max_prob, predicted_risk_category)

\* The try block of _generate_alert, for an argument that passed the checks.
AlertBody(self, p) ==
    LET max_prob_idx == ArgMax(p.v)
        max_prob == p.v[max_prob_idx]
        predicted_risk_category == self.classes[max_prob_idx]
        cfg == self.config
    IN  IF ThresholdAttrs \ cfg.has # {} THEN ErrorAlert
        ELSE IF max_prob_idx = self.high_risk_idx /\ max_prob >= cfg.high_risk_threshold
            THEN Alert("HIGH_ALERT", "CRITICAL", max_prob, predicted_risk_category)
        ELSE IF max_prob_idx = self.mid_risk_idx /\ max_prob >= cfg.mid_risk_threshold
            THEN Alert("MEDIUM_ALERT", "MODERATE", max_prob, predicted_risk_category)
        ELSE IF max_prob_idx = self.low_risk_idx /\ max_prob >= cfg.low_risk_confidence
            THEN Alert("LOW_ALERT", "LOW", max_prob, predicted_risk_category)
        ELSE Alert("NO_SPECIFIC_ALERT", "LOW", max_prob, predicted_risk_category)

\* _generate_alert: [raised, error, alert].
GenerateAlert(self, p) ==
    LET err == AlertInputError(self, p)
    IN  IF err # "" THEN [raised |-> TRUE, error |-> err, alert |-> NoAlert]
        ELSE [raised |-> FALSE, error |-> "", alert |-> AlertBody(self, p)]

(***************************************************************************)
(* Input frames.  A cell is [isnull, v]; a row maps the columns of its     *)
(* frame to cells; a frame is [columns, rows], as pd.DataFrame(list of     *)
(* dicts) builds it.                                                       *)
(***************************************************************************)
required_cols == <<"Age", "SystolicBP", "DiastolicBP", "BS", "BodyTemp", "HeartRate">>

Cell(v) == [isnull |-> FALSE, v |-> v]
NullCell == [isnull |-> TRUE, v |-> 0]

\* _validate_input raising at the first missing column only (a mutant).
ValidateInput_FirstMissingOnly(self, X) ==
    LET present == Range(X.columns)
        missing_cols == FilterSeq(required_cols, Range(required_cols) \ present)
        null_column_names ==
            FilterSeq(required_cols,
                      {c \in Range(required_cols) :
                          \E i \in DOMAIN X.rows : X.rows[i][c].isnull})
        out_of_range(c) ==
            \E i \in DOMAIN X.rows :
                /\ ~X.rows[i][c].isnull
                /\ \/ X.rows[i][c].v < self.config.clinical_ranges[c][1]
                   \/ X.rows[i][c].v > self.config.clinical_ranges[c][2]
    IN  IF missing_cols # <<>>
            THEN [error |-> "missing", cols |-> <<Head(missing_cols)>>, warnings |-> <<>>]
        ELSE IF null_column_names # <<>>
            THEN [error |-> "null", cols |-> null_column_names, warnings |-> <<>>]
        ELSE [error |-> "", cols |-> <<>>,
              warnings |-> FilterSeq(required_cols,
                              {c \in DOMAIN self.config.clinical_ranges :
                                  c \in present /\ out_of_range(c)})]

\* _validate_input looking for nulls in the first row only (a mutant).
ValidateInput_NullFirstRowOnly(self, X) ==
    LET present == Range(X.columns)
        missing_cols == FilterSeq(required_cols, Range(required_cols) \ present)
        null_column_names ==
            FilterSeq(required_cols,
                      {c \in Range(required_cols) :
                          \E i \in DOMAIN X.rows : i = 1 /\ X.rows[i][c].isnull})
        out_of_range(c) ==
            \E i \in DOMAIN X.rows :
                /\ ~X.rows[i][c].isnull
                /\ \/ X.rows[i][c].v < self.config.clinical_ranges[c][1]
                   \/ X.rows[i][c].v > self.config.clinical_ranges[c][2]
    IN  IF missing_cols # <<>>
            THEN [error |-> "missing", cols |-> missing_cols, warnings |-> <<>>]
        ELSE IF null_column_names # <<>>
            THEN [error |-> "null", cols |-> null_column_names, warnings |-> <<>>]
        ELSE [error |-> "", cols |-> <<>>,
              warnings |-> FilterSeq(required_cols,
                              {c \in DOMAIN self.config.clinical_ranges :
                                  c \in present /\ out_of_range(c)})]

\* _validate_input of the pipeline: [error, cols, warnings].
\* error is "" when validation passes, else the ValueError raised;
\* warnings are the columns a clinical-range warning is logged for, in the
\* order of config.clinical_ranges.
ValidateInput(self, X) ==
    LET present == Range(X.columns)
        missing_cols == FilterSeq(required_cols, Range(required_cols) \ present)
        null_column_names ==
            FilterSeq(required_cols,
                      {c \in Range(required_cols) :
                          \E i \in DOMAIN X.rows : X.rows[i][c].isnull})
        out_of_range(c) ==
            \E i \in DOMAIN X.rows :
                /\ ~X.rows[i][c].isnull
                /\ \/ X.rows[i][c].v < self.config.clinical_ranges[c][1]
                   \/ X.rows[i][c].v > self.config.clinical_ranges[c][2]
    IN  IF missing_cols # <<>>
            THEN [error |-> "missing", cols |-> missing_cols, warnings |-> <<>>]
        ELSE IF null_column_names # <<>>
            THEN [error |-> "null", cols |-> null_column_names, warnings |-> <<>>]
        ELSE [error |-> "", cols |-> <<>>,
              warnings |-> FilterSeq(required_cols,
                              {c \in DOMAIN self.config.clinical_ranges :
                                  c \in present /\ out_of_range(c)})]

(***************************************************************************)
(* features.py: FeatureEngineer.  A quotient is kept as <<num, den>>:      *)
(* pandas division by zero gives inf (or NaN for 0/0), not an exception.   *)
(***************************************************************************)
IsInf(q) == q[2] = 0 /\ q[1] # 0

\* pd.cut(Age, bins=[-inf, 20, 35, inf], labels=[0, 1, 2]): right-closed bins.
AgeCategory(age) == IF age <= 20 THEN 0 ELSE IF age <= 35 THEN 1 ELSE 2

\* FeatureEngineer._validate_input: TRUE when it raises ValueError.
FeaturesMissing(X) == \E c \in Range(required_cols) : c \notin Range(X.columns)

\* The engineered columns transform adds to one row.
EngineerRow(r) ==
    LET Age == r["Age"].v
        SystolicBP == r["SystolicBP"].v
        DiastolicBP == r["DiastolicBP"].v
        BS == r["BS"].v
        BodyTemp == r["BodyTemp"].v
        HeartRate == r["HeartRate"].v
        PulsePressure == SystolicBP - DiastolicBP
    IN  [Age |-> Age, SystolicBP |-> SystolicBP, DiastolicBP |-> DiastolicBP,
         BS |-> BS, BodyTemp |-> BodyTemp, HeartRate |-> HeartRate,
         Age_SystolicBP |-> Age * SystolicBP,
         PulsePressure |-> PulsePressure,
         MAP |-> <<3 * DiastolicBP + PulsePressure, 3>>,
         HR_Temp_Ratio |-> <<HeartRate, BodyTemp>>,
         Age_BS |-> Age * BS,
         BP_Product |-> SystolicBP * DiastolicBP,
         Age_squared |-> Age * Age,
         Temp_HR_interaction |-> BodyTemp * HeartRate,
         Sys_Dia_Ratio |-> <<SystolicBP, DiastolicBP>>,
         ShockIndex |-> <<HeartRate, SystolicBP>>,
         Temp_Deviation |-> BodyTemp - 37,
         BS_Deviation |-> BS - 7,
         Age_Category |-> AgeCategory(Age),
         Hypertension_Flag |-> IF SystolicBP >= 140 \/ DiastolicBP >= 90 THEN 1 ELSE 0]

\* FeatureEngineer.transform: [raised, rows]; the input frame is copied.
Transform(X) ==
    IF FeaturesMissing(X) THEN [raised |-> TRUE, rows |-> <<>>]
    ELSE [raised |-> FALSE,
          rows |-> [i \in DOMAIN X.rows |-> EngineerRow(X.rows[i])]]

\* The columns transform appends to the frame, in the order it creates them.
engineered_cols ==
    <<"Age_SystolicBP", "PulsePressure", "MAP", "HR_Temp_Ratio", "Age_BS",
      "BP_Product", "Age_squared", "Temp_HR_interaction", "Sys_Dia_Ratio",
      "ShockIndex", "Temp_Deviation", "BS_Deviation", "Age_Category",
      "Hypertension_Flag">>

\* The columns of X_engineered: X.copy() keeps the input's columns in the
\* input's order, and each assignment appends one column.
EngineeredColumns(X) == X.columns \o engineered_cols

\* train.py: the scaler is fitted on the engineered training frame, whose
\* first columns are the six vitals in the order of the training data.
FitColumns == required_cols \o engineered_cols

\* The fitted StandardScaler.  scikit-learn records the fit frame's column
\* names; what transform does with a frame whose names come in another order
\* depends on the installed release, which the repository does not pin: it
\* raises ValueError (1.2 and later), or only warns (1.0, 1.1) or does
\* nothing (before 1.0) and scales the columns by position.
StandardScaler(checks) ==
    [feature_names_in |-> FitColumns, checks_feature_names |-> checks]

ScalerSamples == {StandardScaler(TRUE), StandardScaler(FALSE)}

\* scaler.transform rejecting the frame for the order of its columns.
ScalerNamesRaise(scaler, cols) ==
    scaler.checks_feature_names /\ cols # scaler.feature_names_in

\* X_scaled is a positional array: the classifier reads position p as the
\* p-th fit-time feature, whatever column the frame holds there.
AlignedRow(er, cols) ==
    IF cols = FitColumns THEN er
    ELSE [c \in Range(FitColumns) |-> er[cols[IndexOf(FitColumns, c)]]]

\* scaler.transform (StandardScaler): sklearn validates its input and raises
\* ValueError when it has no rows or holds an infinite value; NaN is let
\* through.
ScalerRaises(rows) ==
    \/ rows = <<>>
    \/ \E i \in DOMAIN rows :
        \/ IsInf(rows[i].HR_Temp_Ratio)
        \/ IsInf(rows[i].Sys_Dia_Ratio)
        \/ IsInf(rows[i].ShockIndex)
        \/ IsInf(rows[i].MAP)

(***************************************************************************)
(* The fitted classifier.  It is a fixed function of the feature row: a    *)
(* model [ncols, shift] answers a row with one entry of the table of its   *)
(* width, picked by the row's values (the first feature weighs double, so  *)
(* the answer depends on which value stands where).  An entry is a         *)
(* probability row or Raise, an exception inside the classifier.           *)
(***************************************************************************)
Raise == <<>>

OutputTable(ncols) ==
    IF ncols = 3 THEN
        << <<75, 15, 10>>, <<60, 20, 20>>, <<10, 20, 70>>, <<5, 90, 5>>,
           <<30, 40, 30>>, <<50, 30, 30>>, <<70, 16, 15>>, <<120, -10, -10>>,
           Raise >>
    ELSE IF ncols = 2 THEN << <<60, 40>>, <<70, 40>> >>
    ELSE << <<70, 10, 10, 10>>, <<10, 20, 30, 40>>, <<40, 30, 20, 20>> >>

ModelSamples ==
    {[ncols |-> n, shift |-> s] : n \in 2..4, s \in 0..8} \ 
    {m \in [ncols : 2..4, shift : 0..8] : m.shift >= Len(OutputTable(m.ncols))}

\* model.predict_proba for one row.
PredictProba(model, er) ==
    LET table == OutputTable(model.ncols)
        code == 2 * er.Age + er.SystolicBP + er.DiastolicBP + er.BS + er.BodyTemp
                + er.HeartRate
    IN  table[((code + model.shift) % Len(table)) + 1]

(***************************************************************************)
(* pipeline.py: predict.                                                   *)
(***************************************************************************)
NoResults == <<>>

Outcome(raised, error, cols, results, warnings, stages) ==
    [raised |-> raised, error |-> error, error_cols |-> cols,
     results |-> results, warnings |-> warnings, stages |-> stages]

Abs(x) == IF x < 0 THEN -x ELSE x

\* shap_explainer.shap_values(X_engineered): the attribution of column j of a
\* row to class k.  The explainer is a fixed function of the row; the values
\* it gives one row and class differ pairwise in magnitude (7j runs through
\* all residues mod 20), so that np.argsort orders them in one way only.
ShapValue(er, j, k) ==
    LET code == er.Age + er.SystolicBP + er.DiastolicBP + er.BS + er.BodyTemp
                + er.HeartRate
        m == ((7 * j + code + k) % 20) + 1
    IN  IF (j + k) % 2 = 0 THEN m ELSE 0 - m

\* sample_shap of one row: shap_values[class_idx][i] of a list of per-class
\* arrays, shap_values[i, :, class_idx] of a three-dimensional array.
SampleShap(er, ncolumns, class_idx) ==
    [j \in 1..ncolumns |-> ShapValue(er, j, class_idx)]

\* The explanation of one row: the three attributions of largest magnitude,
\* largest first (np.argsort(np.abs(sample_shap))[::-1][:3]), each with the
\* name of its column.
Explanation(sample_shap, feature_names) ==
    LET n == Len(sample_shap)
        nth(r) == CHOOSE j \in 1..n :
            Cardinality({l \in 1..n : Abs(sample_shap[l]) > Abs(sample_shap[j])}) = r - 1
        top_idx == [r \in 1..(IF n < 3 THEN n ELSE 3) |-> nth(r)]
        named(j) == j <= Len(feature_names)
    IN  IF feature_names = <<>> \/ n < Len(feature_names) THEN <<>>
        ELSE [r \in DOMAIN SelectSeq(top_idx, named) |->
                 [feature |-> feature_names[SelectSeq(top_idx, named)[r]],
                  shap_value |-> sample_shap[SelectSeq(top_idx, named)[r]]]]

\* The result dict with the probability mapping built over the three named
\* classes instead of the encoder's class list (a mutant).
Result_NamedClassesOnly(self, proba, alert, label, explanation) ==
    [predicted_risk_level |-> label,
     probability |-> [c \in Range(expected_classes) |-> proba[IndexOf(self.classes, c)]],
     alert |-> alert,
     confidence_score |-> proba[ArgMax(proba)],
     model_version |-> self.version,
     explanation |-> explanation]

\* The result dict with the confidence read at the high-risk position (a
\* mutant: y_proba[i, self.high_risk_idx] written for np.max(y_proba[i])).
Result_ConfidenceOfHighRisk(self, proba, alert, label, explanation) ==
    [predicted_risk_level |-> label,
     probability |-> [c \in Range(self.classes) |-> proba[IndexOf(self.classes, c)]],
     alert |-> alert,
     confidence_score |-> proba[self.high_risk_idx],
     model_version |-> self.version,
     explanation |-> explanation]

\* The result dict of one row (timestamp left out).
Result(self, proba, alert, label, explanation) ==
    [predicted_risk_level |-> label,
     probability |-> [c \in Range(self.classes) |-> proba[IndexOf(self.classes, c)]],
     alert |-> alert,
     confidence_score |-> proba[ArgMax(proba)],
     model_version |-> self.version,
     explanation |-> explanation]

\* The SHAP step without its try block (a mutant: the explainer's exception
\* leaves predict).
ShapValuesStep_Unguarded(explainer) ==
    [raised |-> explainer = "raises", available |-> explainer \in {"list", "ndarray"}]

\* The SHAP step of predict, inside its own try block: shap_values stays
\* None when there is no explainer or the explainer raises, and nothing is
\* raised.
ShapValuesStep(explainer) ==
    [raised |-> FALSE, available |-> explainer \in {"list", "ndarray"}]

\* The alert of every row taken from the first row's probabilities (a
\* mutant: y_proba[0] written for y_proba[i]).
RowAlert_FirstRow(self, y_proba, i) ==
    GenerateAlert(self, [ndarray |-> TRUE, v |-> y_proba[1]])

\* The alert of a row whose probabilities do not sum to 1 absorbed into the
\* ERROR alert, so that the loop goes on to the next row (a mutant: the
\* call wrapped in a try block).
RowAlert_AbsorbsRejection(self, y_proba, i) ==
    LET a == GenerateAlert(self, [ndarray |-> TRUE, v |-> y_proba[i]])
    IN  IF a.raised /\ a.error = "sum" /\ Len(y_proba[i]) = Len(self.classes)
            THEN [raised |-> FALSE, error |-> "", alert |-> ErrorAlert]
        ELSE a

\* alert_info = self._generate_alert(y_proba[i]), in the loop over the rows
\* and outside any try block.
RowAlert(self, y_proba, i) ==
    GenerateAlert(self, [ndarray |-> TRUE, v |-> y_proba[i]])

\* predict on a frame: validation, feature engineering, scaling, the
\* classifier, the SHAP values of the whole frame when there is an
\* explainer, then one alert, one explanation and one result per row.
\* `stages` lists the steps entered, in order.
Predict(self, X) ==
    LET v == ValidateInput(self, X)
        fe == Transform(X)
        cols == EngineeredColumns(X)
        y_proba == [i \in DOMAIN fe.rows |->
                       PredictProba(self.model, AlignedRow(fe.rows[i], cols))]
        \* model.predict: the class of the largest probability
        y_pred == [i \in DOMAIN y_proba |-> ArgMax(y_proba[i])]
        alerts == [i \in DOMAIN y_proba |-> RowAlert(self, y_proba, i)]
        s1 == <<"validate">>
        s2 == <<"validate", "feature_engineering">>
        s3 == <<"validate", "feature_engineering", "scaling">>
        s4 == <<"validate", "feature_engineering", "scaling", "model">>
        \* shap_values is computed, for the whole frame, before the loop
        \* over the rows starts
        s5 == IF self.shap_explainer = "none" THEN s4 \o <<"alert">>
              ELSE s4 \o <<"shap", "alert">>
        shap == ShapValuesStep(self.shap_explainer)
        explanation(i) ==
            IF shap.available
                THEN Explanation(SampleShap(fe.rows[i], Len(cols), ArgMax(y_proba[i])),
                                 cols)
            ELSE <<>>
    IN  IF v.error # ""
            THEN Outcome(TRUE, v.error, v.cols, NoResults, <<>>, s1)
        ELSE IF fe.raised
            THEN Outcome(TRUE, "transform", <<>>, NoResults, v.warnings, s2)
        ELSE IF ScalerNamesRaise(self.scaler, cols) \/ ScalerRaises(fe.rows)
            THEN Outcome(TRUE, "transform", <<>>, NoResults, v.warnings, s3)
        ELSE IF \E i \in DOMAIN y_proba : y_proba[i] = Raise
            THEN Outcome(TRUE, "model", <<>>, NoResults, v.warnings, s4)
        \* label_encoder.inverse_transform raises on an unseen label
        ELSE IF \E i \in DOMAIN y_pred : y_pred[i] > Len(self.classes)
            THEN Outcome(TRUE, "model", <<>>, NoResults, v.warnings, s4)
        ELSE IF shap.raised
            THEN Outcome(TRUE, "shap", <<>>, NoResults, v.warnings, s4 \o <<"shap">>)
        ELSE IF \E i \in DOMAIN alerts : alerts[i].raised
            THEN Outcome(TRUE,
                         alerts[CHOOSE i \in DOMAIN alerts :
                                    /\ alerts[i].raised
                                    /\ \A j \in 1..(i - 1) : ~alerts[j].raised].error,
                         <<>>, NoResults, v.warnings, s5)
        ELSE Outcome(FALSE, "", <<>>,
                     [i \in DOMAIN y_proba |->
                         Result(self, y_proba[i], alerts[i].alert,
                                self.classes[y_pred[i]], explanation(i))],
                     v.warnings, s5)

(***************************************************************************)
(* app.py: MaternalHealthModel.predict_risk.                               *)
(***************************************************************************)
risk_mapping(label) ==
    IF label = "high risk" THEN "HIGH"
    ELSE IF label = "mid risk" THEN "MEDIUM"
    ELSE "LOW"

\* The defaults of features.get(key, default), in whole numbers.
feature_defaults ==
    [Age |-> 25, SystolicBP |-> 120, DiastolicBP |-> 80, BS |-> 8,
     BodyTemp |-> 98, HeartRate |-> 72]

NoRisk == [risk_level |-> "", confidence |-> 0, probabilities |-> <<>>]
FallbackRisk == [risk_level |-> "LOW", confidence |-> 50, probabilities |-> <<>>]

\* features_for_model as a one-row frame; features is a dict over some of
\* the columns.
FeaturesForModel(features) ==
    [columns |-> required_cols,
     rows |-> << [c \in Range(required_cols) |->
                     IF c \in DOMAIN features THEN features[c]
                     ELSE Cell(feature_defaults[c])] >>]

\* app.py's `model` when the artifact could not be loaded.
None == [loaded |-> FALSE]

\* predict_risk: [risk, inner], the dict returned and the outcome of the
\* pipeline's predict it called (NoOutcome when no pipeline is loaded).
NoOutcome == Outcome(FALSE, "", <<>>, NoResults, <<>>, <<>>)

PredictRisk(self, features) ==
    IF self = None THEN [risk |-> FallbackRisk, inner |-> NoOutcome]
    ELSE LET o == Predict(self, FeaturesForModel(features))
         IN  IF o.raised \/ o.results = <<>>
                 THEN [risk |-> FallbackRisk, inner |-> o]
             ELSE [risk |-> [risk_level |-> risk_mapping(o.results[1].predicted_risk_level),
                             confidence |-> o.results[1].confidence_score,
                             probabilities |-> o.results[1].probability],
                   inner |-> o]

(***************************************************************************)
(* The explanation engine (src/shap_utils.py, class SHAPExplainer).        *)
(*                                                                         *)
(* The attribution library is outside the repository.  What kind of        *)
(* container explainer.shap_values returns depends on the explainer and    *)
(* on the library's version, so it is fixed when the explainer is built;   *)
(* whether one call raises, and the attributions it returns for one        *)
(* patient, are chosen by the caller of the operators below.               *)
(***************************************************************************)
feature_names ==
    <<"Age", "SystolicBP", "DiastolicBP", "BS", "BodyTemp", "HeartRate">>

feature_descriptions ==
    [f \in Range(feature_names) |->
        CASE f = "Age" -> "Patient age in years"
          [] f = "SystolicBP" -> "Systolic blood pressure (mmHg)"
          [] f = "DiastolicBP" -> "Diastolic blood pressure (mmHg)"
          [] f = "BS" -> "Blood sugar level (mmol/L)"
          [] f = "BodyTemp" -> "Body temperature (F)"
          [] f = "HeartRate" -> "Heart rate (beats per minute)"]

\* self.explainer after _initialize_explainer: None, a TreeExplainer or a
\* KernelExplainer.
ExplainerTypes == {"none", "tree", "kernel"}

\* What explainer.shap_values gives back when it does not raise: a list of
\* arrays (one per class), or an array of one, two or three dimensions.
ShapFormats == {"list", "ndarray1", "ndarray2", "ndarray3"}

\* SHAPExplainer(model): the object with the explainer its constructor
\* could build, and the container that explainer returns.
SHAPExplainer(explainer, returns) == [explainer |-> explainer, returns |-> returns]

\* shap_utils.shap_explainer before anyone set it.
NoExplainer == [created |-> FALSE]

\* _initialize_explainer: the objects the constructor can end with.  No
\* model gives no explainer; with a model it is a TreeExplainer, the
\* KernelExplainer fallback, or none when building one failed or the shap
\* package is missing.
InitializeExplainer(model) ==
    IF model = None THEN {SHAPExplainer("none", "none")}
    ELSE {SHAPExplainer("none", "none")}
         \cup {SHAPExplainer(e, f) : e \in {"tree", "kernel"}, f \in ShapFormats}

\* shap_values[0] for a TreeExplainer that returned a list; the value as it
\* is otherwise.
FirstClassOfList(self) ==
    IF self.explainer = "tree" /\ self.returns = "list" THEN "ndarray2"
    ELSE self.returns

\* list.sort(key=..., reverse=True): the positions of keys in descending
\* order of key, equal keys in their original order (the sort is stable,
\* also when reversed).
RECURSIVE InsertIndex(_, _, _)
InsertIndex(order, i, keys) ==
    IF order = <<>> THEN <<i>>
    ELSE IF keys[Head(order)] >= keys[i]
        THEN <<Head(order)>> \o InsertIndex(Tail(order), i, keys)
    ELSE <<i>> \o order

RECURSIVE SortOrder(_, _)
SortOrder(keys, n) ==
    IF n = 0 THEN <<>> ELSE InsertIndex(SortOrder(keys, n - 1), n, keys)

SortedBy_ReversedThenSorted(s, keys) ==
    LET n == Len(s)
        o == SortOrder([j \in 1..n |-> keys[n + 1 - j]], n)
    IN  [j \in 1..n |-> s[n + 1 - o[j]]]

SortedBy(s, keys) ==
    LET o == SortOrder(keys, Len(s))
    IN  [j \in 1..Len(s) |-> s[o[j]]]

\* for i, exp in enumerate(explanations): exp[rank_field] = i + 1
WithRanks(s, rank_field) ==
    [j \in 1..Len(s) |-> [s[j] EXCEPT ![rank_field] = j]]

\* One entry of the individual explanation: feature i of feature_names with
\* the attribution at position i of the returned row.
ExplanationEntry(features, i, phi) ==
    [feature |-> feature_names[i],
     feature_description |-> feature_descriptions[feature_names[i]],
     value |-> features.value[feature_names[i]],
     shap_value |-> phi[i],
     abs_shap_value |-> Abs(phi[i]),
     impact |-> IF phi[i] > 0 THEN "positive" ELSE "negative",
     importance_rank |-> 0]

\* get_individual_explanation(features).  features is the dict: its keys in
\* insertion order (the columns of pd.DataFrame([features])) and its
\* values.  raises says that shap_values raised for the one-row frame;
\* phi is what it returned otherwise: phi[c] is the attribution of column
\* c.  Reading feature i of feature_names at a position beyond the columns
\* is an IndexError, which the except clause turns into the empty list.
GetIndividualExplanation(self, features, raises, phi) ==
    LET ncolumns == Len(features.keys)
        shap_values == FirstClassOfList(self)
        present == {i \in DOMAIN feature_names :
                        feature_names[i] \in Range(features.keys)}
        readable == shap_values \in {"ndarray1", "ndarray2"}
        explained == SelectSeq([i \in DOMAIN feature_names |-> i],
                               LAMBDA i : i \in present)
        explanations ==
            [j \in 1..Len(explained) |-> ExplanationEntry(features, explained[j], phi)]
        sorted == SortedBy(explanations,
                           [j \in 1..Len(explanations) |->
                                explanations[j].abs_shap_value])
    IN  IF self.explainer = "none" THEN <<>>
        ELSE IF raises THEN <<>>
        ELSE IF ~readable THEN <<>>
        ELSE IF \E i \in present : i > ncolumns THEN <<>>
        ELSE WithRanks(sorted, "importance_rank")

ErrorMarker(message) == [error |-> message]

\* sum(exp["shap_value"] for exp in entries)
RECURSIVE ShapSum(_)
ShapSum(entries) ==
    IF entries = <<>> THEN 0 ELSE Head(entries).shap_value + ShapSum(Tail(entries))

\* individual_explanation[:3]
FirstThree(s) == SubSeq(s, 1, IF Len(s) < 3 THEN Len(s) ELSE 3)

Summary_HighFromThree(individual_explanation) ==
    LET positive_features ==
            SelectSeq(individual_explanation, LAMBDA e : e.impact = "positive")
        negative_features ==
            SelectSeq(individual_explanation, LAMBDA e : e.impact = "negative")
    IN  [top_contributing_features |-> FirstThree(individual_explanation),
         positive_contributors |-> positive_features,
         negative_contributors |-> negative_features,
         total_positive_impact |-> ShapSum(positive_features),
         total_negative_impact |-> ShapSum(negative_features),
         most_important_feature |-> individual_explanation[1],
         explanation_quality |->
             IF Len(individual_explanation) >= 3 THEN "high" ELSE "medium"]

\* The summary built from a non-empty individual explanation.
Summary(individual_explanation) ==
    LET positive_features ==
            SelectSeq(individual_explanation, LAMBDA e : e.impact = "positive")
        negative_features ==
            SelectSeq(individual_explanation, LAMBDA e : e.impact = "negative")
    IN  [top_contributing_features |-> FirstThree(individual_explanation),
         positive_contributors |-> positive_features,
         negative_contributors |-> negative_features,
         total_positive_impact |-> ShapSum(positive_features),
         total_negative_impact |-> ShapSum(negative_features),
         most_important_feature |-> individual_explanation[1],
         explanation_quality |->
             IF Len(individual_explanation) >= 4 THEN "high" ELSE "medium"]

GetExplanationSummary_SummaryOfNothing(self, features, raises, phi) ==
    LET individual_explanation == GetIndividualExplanation(self, features, raises, phi)
    IN  IF individual_explanation = <<>>
            THEN [top_contributing_features |-> <<>>,
                  positive_contributors |-> <<>>,
                  negative_contributors |-> <<>>,
                  total_positive_impact |-> 0,
                  total_negative_impact |-> 0,
                  most_important_feature |-> <<>>,
                  explanation_quality |-> "medium"]
        ELSE Summary(individual_explanation)

\* get_explanation_summary(features): it asks for the individual
\* explanation itself.
GetExplanationSummary(self, features, raises, phi) ==
    LET individual_explanation == GetIndividualExplanation(self, features, raises, phi)
    IN  IF individual_explanation = <<>>
            THEN ErrorMarker("Could not generate explanation")
        ELSE Summary(individual_explanation)

\* functools.lru_cache(maxsize=32) around _get_cached_shap_values.
lru_maxsize == 32

\* The pair (None, None) of _get_cached_shap_values.
NoShapValues == [available |-> FALSE, format |-> "none", samples |-> 0, mean_abs |-> <<>>]

\* np.mean(np.abs(shap_values), axis=0) for the sample of a given size:
\* the sample is drawn with seed 42, so the attributions are a fixed
\* function of the size.  The values stand for those of the fitted model;
\* two features tie.
SampleMeanAbs(sample_size) ==
    <<sample_size % 7, 3, 3, sample_size % 5, 1, 6>>

\* The body of _get_cached_shap_values(sample_size): attributions for
\* sample_size synthetic samples, of which the model keeps the container
\* and, per feature, the mean absolute attribution.
ComputeShapValues(self, sample_size, raises) ==
    IF self.explainer = "none" THEN NoShapValues
    ELSE IF raises THEN NoShapValues
    ELSE [available |-> TRUE, format |-> FirstClassOfList(self),
          samples |-> sample_size, mean_abs |-> SampleMeanAbs(sample_size)]

\* The lru_cache wrapper, in its steps.  The entries are kept from the
\* least to the most recently used.
LruHas(cache, key) == \E i \in DOMAIN cache : cache[i].key = key

\* The stored value of a key that is there.
LruValue(cache, key) ==
    cache[CHOOSE i \in DOMAIN cache : cache[i].key = key].value

\* A hit makes the entry the most recent one.
LruTouch(cache, key) ==
    SelectSeq(cache, LAMBDA e : e.key # key)
        \o SelectSeq(cache, LAMBDA e : e.key = key)

\* After the body returned: the result is stored, unless another thread
\* stored one for the key meanwhile, and the least recent entry beyond
\* maxsize is dropped.
LruStore(cache, key, value) ==
    IF LruHas(cache, key) THEN cache
    ELSE LET grown == Append(cache, [key |-> key, value |-> value])
         IN  IF Len(grown) > lru_maxsize THEN Tail(grown) ELSE grown

\* A call through the lru_cache wrapper with no other thread in between:
\* [value, cache, computed_over].  A hit returns the stored value
\* (failures are stored like results); a miss runs the body and stores what
\* it returned.  computed_over is the number of samples the explainer was
\* run on in this call (0 when it was not run).
GetCachedShapValues(self, cache, sample_size, raises) ==
    IF LruHas(cache, sample_size)
        THEN [value |-> LruValue(cache, sample_size),
              cache |-> LruTouch(cache, sample_size),
              computed_over |-> 0]
    ELSE LET v == ComputeShapValues(self, sample_size, raises)
         IN  [value |-> v,
              cache |-> LruStore(cache, sample_size, v),
              computed_over |-> IF self.explainer = "none" THEN 0 ELSE sample_size]

\* The ranking of get_global_feature_importance.
FeatureImportance(mean_abs) ==
    LET entries == [i \in DOMAIN feature_names |->
                        [feature |-> feature_names[i],
                         description |-> feature_descriptions[feature_names[i]],
                         mean_abs_shap |-> mean_abs[i],
                         rank |-> 0]]
    IN  WithRanks(SortedBy(entries, mean_abs), "rank")

\* What get_global_feature_importance makes of the attributions it got.
\* Only a two-dimensional array has a mean per feature that float()
\* accepts; any other container ends in the except clause.
ImportanceResult(value, sample_size) ==
    IF ~value.available
        THEN ErrorMarker("Could not compute SHAP values")
    ELSE IF value.format # "ndarray2"
        THEN ErrorMarker("Could not compute global feature importance")
    ELSE [feature_importance |-> FeatureImportance(value.mean_abs),
          sample_size |-> sample_size,
          total_features |-> Len(feature_names)]

\* get_global_feature_importance(sample_size): [result, cache,
\* computed_over].
GetGlobalFeatureImportance(self, cache, sample_size, raises) ==
    IF self.explainer = "none"
        THEN [result |-> ErrorMarker("SHAP explainer not available"),
              cache |-> cache, computed_over |-> 0]
    ELSE LET c == GetCachedShapValues(self, cache, sample_size, raises)
         IN  [result |-> ImportanceResult(c.value, sample_size),
              cache |-> c.cache, computed_over |-> c.computed_over]

\* The Redis cache of the routes: whether a server answers, and the
\* results stored under shap_global_importance_{sample_size}.
NoStore == [k \in {} |-> <<>>]

Redis(available) ==
    [available |-> available, store |-> NoStore, explanations |-> {}]

\* redis_client.setex(cache_key, 3600, json.dumps(result))
Setex(store, key, result) ==
    [k \in DOMAIN store \cup {key} |-> IF k = key THEN result ELSE store[k]]

\* The entry of a key after its time to live.
Expire(store, key) == [k \in DOMAIN store \ {key} |-> store[k]]

\* The requests to /shap/global that can be in flight together.
RequestIds == {1, 2}

\* A request slot nobody uses.
NoRequest ==
    [pc |-> "idle", requested |-> 0, sample_size |-> 0, worker |-> "none",
     columns |-> 0, as_seeded |-> TRUE, raised |-> FALSE, result |-> <<>>,
     response |-> <<>>]

NoRequests == [r \in RequestIds |-> NoRequest]

\* NumPy's global RandomState: the seed it was last seeded with (0 before
\* any np.random.seed) and how many values were drawn since.
Unseeded == [seed |-> 0, drawn |-> 0]

(***************************************************************************)
(* Inputs.                                                                 *)
(***************************************************************************)
\* Label encoders: the three classes as LabelEncoder sorts them, and an
\* encoder fitted on a fourth class.
ClassLists ==
    {<<"high risk", "low risk", "mid risk">>,
     <<"high risk", "low risk", "mid risk", "unknown risk">>}

ProbValues == {-10, 0, 1, 10, 20, 30, 39, 40, 50, 69, 70, 89, 90, 120}
ProbValuesCoarse == {0, 10, 20, 30, 40, 70}

\* Probability arguments of _generate_alert: arrays of two to four values,
\* and two Python lists, which are not NumPy arrays.
AlertVectors ==
    [1..2 -> ProbValues] \cup [1..3 -> ProbValues] \cup [1..4 -> ProbValuesCoarse]

AlertInputs ==
    {[ndarray |-> TRUE, v |-> v] : v \in AlertVectors}
    \cup {[ndarray |-> FALSE, v |-> v] : v \in {<<70, 20, 10>>, <<50, 50, 50>>}}

\* The pipelines the constructor yields: it raises when a class is missing.
\* These are built where the shap package is absent and scikit-learn checks
\* column names.
Pipelines ==
    {MaternalRiskPipeline(cl, cfg, m, StandardScaler(TRUE), "none") :
        cl \in {c \in ClassLists : ~SetupRaises(c)},
        cfg \in ConfigSamples, m \in ModelSamples}

\* Rows: in-range vitals, and the same with one cell null, zero or above
\* its clinical range.
NormalRow ==
    [Age |-> Cell(25), SystolicBP |-> Cell(120), DiastolicBP |-> Cell(80),
     BS |-> Cell(7), BodyTemp |-> Cell(98), HeartRate |-> Cell(70)]

OddCells(c) == {NullCell, Cell(0), Cell(clinical_ranges[c][2] + 1)}

RowSamples ==
    {NormalRow}
    \cup UNION {{[NormalRow EXCEPT ![c] = x] : x \in OddCells(c)} :
                    c \in Range(required_cols)}

\* Frames with every required column and up to MaxRows rows, and frames
\* lacking some columns (their cells are not read).
FullFrames ==
    {[columns |-> required_cols, rows |-> rs] :
        rs \in UNION {[1..n -> RowSamples] : n \in 0..MaxRows}}

PartialFrames ==
    {[columns |-> FilterSeq(required_cols, S),
      rows |-> [i \in 1..n |-> [c \in S |-> NormalRow[c]]]] :
        S \in (SUBSET Range(required_cols)) \ {Range(required_cols)}, n \in 0..MaxRows}

\* Frames built from dicts whose keys come in another order than the
\* canonical one: the first two columns swapped, and all six reversed.
ColumnOrders ==
    {<<"SystolicBP", "Age", "DiastolicBP", "BS", "BodyTemp", "HeartRate">>,
     <<"HeartRate", "BodyTemp", "BS", "DiastolicBP", "SystolicBP", "Age">>}

PermutedFrames ==
    {[columns |-> cs, rows |-> rs] :
        cs \in ColumnOrders,
        rs \in UNION {[1..n -> {NormalRow,
                                [NormalRow EXCEPT !["Age"] = Cell(61)]}] :
                          n \in 0..MaxRows}}

Frames == FullFrames \cup PartialFrames \cup PermutedFrames

\* Pipelines under the default config, with each kind of explainer and each
\* behaviour of the scaler.
BatchPipelines ==
    {MaternalRiskPipeline(cl, DefaultConfig, m, sc, e) :
        cl \in {c \in ClassLists : ~SetupRaises(c)},
        m \in ModelSamples, sc \in ScalerSamples, e \in ExplainerKinds}

\* The feature dicts handed to predict_risk: a row, possibly lacking one key.
FeatureDicts ==
    {[c \in Range(required_cols) \ D |-> r[c]] :
        r \in RowSamples,
        D \in {{}} \cup {{c} : c \in Range(required_cols)}}

(***************************************************************************)
(* State: the loaded pipeline (app.py's `model`, None when loading failed)  *)
(* and the call just completed.                                            *)
(***************************************************************************)
NoProbs == [ndarray |-> FALSE, v |-> <<>>]
NoFrame == [columns |-> <<>>, rows |-> <<>>]

NoCall ==
    [op |-> "none", probs |-> NoProbs, X |-> NoFrame, alert |-> NoAlert,
     out |-> NoOutcome, risk |-> NoRisk]

Init ==
    /\ pipeline \in Pipelines \cup {None}
    /\ call = NoCall
    /\ shap_explainer = NoExplainer
    /\ cached_shap_values = <<>>
    /\ redis = Redis(FALSE)
    /\ requests = NoRequests
    /\ np_random = Unseeded

\* A direct call of _generate_alert (tests/test_model.py, test_alert_levels).
GenerateAlertCall ==
    /\ call.op = "none"
    /\ pipeline # None
    /\ \E p \in AlertInputs :
        LET r == GenerateAlert(pipeline, p)
        IN  call' = [NoCall EXCEPT !.op = "generate_alert", !.probs = p,
                                   !.alert = r.alert,
                                   !.out = [NoOutcome EXCEPT !.raised = r.raised,
                                                             !.error = r.error]]
    /\ UNCHANGED <<pipeline, shap_vars, worker_vars>>

\* A call of pipeline.predict (predict.py, train.py, background_tasks.py).
PredictCall ==
    /\ call.op = "none"
    /\ pipeline # None
    /\ \E X \in Frames :
        call' = [NoCall EXCEPT !.op = "predict", !.X = X, !.out = Predict(pipeline, X)]
    /\ UNCHANGED <<pipeline, shap_vars, worker_vars>>

\* A call of ml_model.predict_risk (app.py).
PredictRiskCall ==
    /\ call.op = "none"
    /\ \E f \in FeatureDicts :
        LET r == PredictRisk(pipeline, f)
        IN  call' = [NoCall EXCEPT !.op = "predict_risk", !.X = FeaturesForModel(f),
                                   !.out = r.inner, !.risk = r.risk]
    /\ UNCHANGED <<pipeline, shap_vars, worker_vars>>

\* The caller takes the outcome; the pipeline is ready for the next call.
CallReturns ==
    /\ call.op # "none"
    /\ call' = NoCall
    /\ UNCHANGED <<pipeline, shap_vars, worker_vars>>

Next == GenerateAlertCall \/ PredictCall \/ PredictRiskCall \/ CallReturns

Spec == Init /\ [][Next]_vars

(***************************************************************************)
(* Batch prediction: predict alone, on pipelines with and without an       *)
(* explainer.                                                              *)
(***************************************************************************)
InitBatch ==
    /\ pipeline \in BatchPipelines
    /\ call = NoCall
    /\ shap_explainer = NoExplainer
    /\ cached_shap_values = <<>>
    /\ redis = Redis(FALSE)
    /\ requests = NoRequests
    /\ np_random = Unseeded

NextBatch == PredictCall \/ CallReturns

SpecBatch == InitBatch /\ [][NextBatch]_vars

(***************************************************************************)
(* The two ways to a pipeline object: the constructor (train.py) and       *)
(* load_model (predict.py, tests), followed by prediction requests.        *)
(***************************************************************************)
\* Label encoders handed to the constructor: the usual ones, and encoders
\* fitted on data in which one risk level does not occur.
EncoderSamples ==
    ClassLists \cup {<<"high risk", "low risk">>, <<"low risk", "mid risk">>}

\* A file joblib.load cannot read.
CorruptFile == [corrupt |-> TRUE]

\* The object in a bundle written by save_model (joblib.dump(self, ...)): a
\* pipeline as it was when it was saved.
Bundle(p) == [corrupt |-> FALSE, object |-> p]

\* Artifacts on disk: bundles of pipelines the constructor built, the same
\* after the label encoder was fitted again on two of the three risk levels
\* (with a classifier of two or of three outputs; the indices are those
\* set at construction), and a corrupt file.
Artifacts ==
    LET built == {MaternalRiskPipeline(<<"high risk", "low risk", "mid risk">>,
                                       DefaultConfig, m, StandardScaler(TRUE), "none") :
                      m \in {k \in ModelSamples : k.ncols \in {2, 3}}}
    IN  {Bundle(p) : p \in {b \in built : b.model.ncols = 3}}
        \cup {Bundle([p EXCEPT !.classes = <<"high risk", "low risk">>]) : p \in built}
        \cup {CorruptFile}

\* load_model: [raised, pipeline].  joblib.load returns the saved object as
\* it is (__init__ and _setup_risk_indices do not run again); only the
\* explainer is initialised anew, with outcome `explainer`.
LoadModel(artifact, explainer) ==
    IF artifact.corrupt THEN [raised |-> TRUE, pipeline |-> None]
    ELSE [raised |-> FALSE,
          pipeline |-> [artifact.object EXCEPT !.shap_explainer = explainer]]

\* A call of the constructor (train.py): it raises when the encoder lacks a
\* risk level, and then no pipeline object comes into being.
ConstructCall ==
    /\ call.op = "none"
    /\ \E cl \in EncoderSamples, m \in ModelSamples, e \in ExplainerKinds :
        IF SetupRaises(cl)
            THEN /\ call' = [NoCall EXCEPT !.op = "construct",
                                           !.out = [NoOutcome EXCEPT !.raised = TRUE,
                                                                     !.error = "setup"]]
                 /\ UNCHANGED pipeline
        ELSE /\ call' = [NoCall EXCEPT !.op = "construct"]
             /\ pipeline' = MaternalRiskPipeline(cl, DefaultConfig, m,
                                                 StandardScaler(TRUE), e)
    /\ UNCHANGED <<shap_vars, worker_vars>>

\* A call of MaternalRiskPipeline.load_model (predict.py, tests).
LoadModelCall ==
    /\ call.op = "none"
    /\ \E a \in Artifacts, e \in ExplainerKinds :
        LET r == LoadModel(a, e)
        IN  IF r.raised
                THEN /\ call' = [NoCall EXCEPT !.op = "load_model",
                                               !.out = [NoOutcome EXCEPT !.raised = TRUE,
                                                                         !.error = "load"]]
                     /\ UNCHANGED pipeline
            ELSE /\ call' = [NoCall EXCEPT !.op = "load_model"]
                 /\ pipeline' = r.pipeline
    /\ UNCHANGED <<shap_vars, worker_vars>>

InitLoad ==
    /\ pipeline = None
    /\ call = NoCall
    /\ shap_explainer = NoExplainer
    /\ cached_shap_values = <<>>
    /\ redis = Redis(FALSE)
    /\ requests = NoRequests
    /\ np_random = Unseeded

NextLoad == ConstructCall \/ LoadModelCall \/ PredictCall \/ CallReturns

SpecLoad == InitLoad /\ [][NextLoad]_vars

(***************************************************************************)
(* The explanation service: the engine of shap_utils.py behind the routes  *)
(* of app.py.                                                              *)
(***************************************************************************)
\* A loaded pipeline for the explainer to be built on.
ServedPipeline ==
    MaternalRiskPipeline(<<"high risk", "low risk", "mid risk">>, DefaultConfig,
                         [ncols |-> 3, shift |-> 0], StandardScaler(TRUE), "none")

\* Measurements of one patient.
VitalValues ==
    [f \in Range(feature_names) |->
        CASE f = "Age" -> 25
          [] f = "SystolicBP" -> 120
          [] f = "DiastolicBP" -> 80
          [] f = "BS" -> 8
          [] f = "BodyTemp" -> 98
          [] f = "HeartRate" -> 70]

Features(keys) == [keys |-> keys, value |-> [f \in Range(keys) |-> VitalValues[f]]]

\* Feature dicts of the requests: all six measurements, the first five,
\* three, two, all but the first, and none.
FeatureSamples ==
    {Features(feature_names), Features(SubSeq(feature_names, 1, 5)),
     Features(SubSeq(feature_names, 1, 3)), Features(SubSeq(feature_names, 1, 2)),
     Features(Tail(feature_names)), Features(<<>>)}

FewFeatureSamples == {Features(feature_names), Features(SubSeq(feature_names, 1, 3))}

\* Attributions of one feature: negative, zero, and two positive sizes, so
\* that rows have ties, both signs and zeros.
AttributionValues == {-1, 0, 1, 2}
FewAttributionValues == {2}

\* The rows shap_values can return for a frame of n columns; a call that
\* raises returns none.
AttributionRows(n, V, raises) ==
    IF raises THEN {<<>>} ELSE [1..n -> V]

\* sample_size of the requests to /shap/global.
RequestedSampleSizes == {20, 100, 101, 150}

\* if sample_size > 100: sample_size = 100
MaxSampleSize == 100

Clamp_KeepsRequest(sample_size) == sample_size

Clamp(sample_size) ==
    IF sample_size > MaxSampleSize THEN MaxSampleSize ELSE sample_size

\* sample_size of the global importance inside /shap/comprehensive.
ComprehensiveSampleSize == 50

\* get_shap_explainer(): the global instance, built from app.model when
\* nobody has set one.
GetShapExplainer(instance, model) ==
    IF instance = NoExplainer THEN InitializeExplainer(model) ELSE {instance}

\* The record of a completed call of the explanation service.
ShapCall(op) ==
    [op |-> op, features |-> Features(<<>>), raises |-> FALSE, phi |-> <<>>,
     requested |-> 0, sample_size |-> 0, reached |-> FALSE, computed_over |-> 0,
     timed_out |-> FALSE, raised |-> FALSE, result |-> <<>>, response |-> <<>>]

\* set_shap_model(model), when app.py is imported.
SetShapModelCall ==
    /\ call.op = "none"
    /\ shap_explainer = NoExplainer
    /\ shap_explainer' \in InitializeExplainer(pipeline)
    /\ call' = ShapCall("set_shap_model")
    /\ UNCHANGED <<pipeline, cached_shap_values, redis, worker_vars>>

\* shap_explainer.get_individual_explanation(features), as the prediction
\* and explanation routes call it.
IndividualExplanationCall(F, V) ==
    /\ call.op = "none"
    /\ \E features \in F, raises \in BOOLEAN :
       \E phi \in AttributionRows(Len(features.keys), V, raises) :
       \E self \in GetShapExplainer(shap_explainer, pipeline) :
        /\ shap_explainer' = self
        /\ call' = [ShapCall("get_individual_explanation") EXCEPT
                        !.features = features, !.raises = raises, !.phi = phi,
                        !.reached = TRUE,
                        !.result = GetIndividualExplanation(self, features, raises, phi)]
    /\ UNCHANGED <<pipeline, cached_shap_values, redis, worker_vars>>

\* shap_explainer.get_explanation_summary(features) (/shap/explanation-summary).
ExplanationSummaryCall(F, V) ==
    /\ call.op = "none"
    /\ \E features \in F, raises \in BOOLEAN :
       \E phi \in AttributionRows(Len(features.keys), V, raises) :
       \E self \in GetShapExplainer(shap_explainer, pipeline) :
        /\ shap_explainer' = self
        /\ call' = [ShapCall("get_explanation_summary") EXCEPT
                        !.features = features, !.raises = raises, !.phi = phi,
                        !.reached = TRUE,
                        !.result = GetExplanationSummary(self, features, raises, phi)]
    /\ UNCHANGED <<pipeline, cached_shap_values, redis, worker_vars>>

\* GET /shap/global?sample_size=requested.  Without a Redis server
\* redis_client is None and the lookup raises before anything is computed.
\* A stored result is returned as it is.  Otherwise the engine computes in
\* a worker thread; when the 20 seconds pass first the response is the
\* timeout error, but leaving the executor's with-block waits for the
\* worker, so the engine's own cache is filled all the same.  Only a result
\* without an error is stored in Redis.
GlobalImportanceRoute ==
    /\ call.op = "none"
    /\ \E requested \in RequestedSampleSizes, raises \in BOOLEAN, timeout \in BOOLEAN :
        LET sample_size == Clamp(requested)
            c == [ShapCall("shap_global") EXCEPT !.requested = requested,
                                                 !.sample_size = sample_size]
        IN  IF ~redis.available
                THEN /\ call' = [c EXCEPT !.raised = TRUE]
                     /\ UNCHANGED <<shap_explainer, cached_shap_values, redis>>
            ELSE IF sample_size \in DOMAIN redis.store
                THEN /\ call' = [c EXCEPT !.response = redis.store[sample_size]]
                     /\ UNCHANGED <<shap_explainer, cached_shap_values, redis>>
            ELSE \E self \in GetShapExplainer(shap_explainer, pipeline) :
                    LET g == GetGlobalFeatureImportance(self, cached_shap_values,
                                                        sample_size, raises)
                        stored == ~timeout /\ "error" \notin DOMAIN g.result
                    IN  /\ shap_explainer' = self
                        /\ cached_shap_values' = g.cache
                        /\ redis' = IF stored
                                        THEN [redis EXCEPT !.store =
                                                  Setex(redis.store, sample_size, g.result)]
                                    ELSE redis
                        /\ call' = [c EXCEPT
                               !.raises = raises, !.reached = TRUE,
                               !.computed_over = g.computed_over,
                               !.timed_out = timeout,
                               !.result = g.result,
                               !.response =
                                   IF timeout
                                       THEN ErrorMarker("SHAP computation timed out")
                                   ELSE g.result]
    /\ UNCHANGED <<pipeline, worker_vars>>

\* POST /shap/comprehensive: the individual explanation, its summary and
\* the global importance over 50 samples in one response; nothing when
\* there is no explainer.
ComprehensiveRoute(F, V) ==
    /\ call.op = "none"
    /\ \E features \in F, raises \in BOOLEAN, global_raises \in BOOLEAN :
       \E phi \in AttributionRows(Len(features.keys), V, raises) :
       \E self \in GetShapExplainer(shap_explainer, pipeline) :
        LET c == [ShapCall("shap_comprehensive") EXCEPT
                      !.features = features, !.raises = raises, !.phi = phi]
            g == GetGlobalFeatureImportance(self, cached_shap_values,
                                            ComprehensiveSampleSize, global_raises)
        IN  /\ shap_explainer' = self
            /\ IF self.explainer = "none"
                   THEN /\ call' = [c EXCEPT !.response =
                                        ErrorMarker("SHAP explainer not available")]
                        /\ UNCHANGED cached_shap_values
               ELSE /\ cached_shap_values' = g.cache
                    /\ call' = [c EXCEPT
                           !.sample_size = ComprehensiveSampleSize,
                           !.reached = TRUE,
                           !.computed_over = g.computed_over,
                           !.result = g.result,
                           !.response =
                               [features |-> features,
                                individual_explanation |->
                                    GetIndividualExplanation(self, features, raises, phi),
                                explanation_summary |->
                                    GetExplanationSummary(self, features, raises, phi),
                                global_importance |-> g.result]]
    /\ UNCHANGED <<pipeline, redis, worker_vars>>

\* POST /shap/explanation: the individual explanation and its summary,
\* computed in a worker thread with a timeout of 8 seconds and kept in
\* Redis for ten minutes under a hash of the features.  What the engine
\* returned is stored as it is; only a timeout returns before the store.
ExplanationRoute(F, V) ==
    /\ call.op = "none"
    /\ \E features \in F, raises \in BOOLEAN, timeout \in BOOLEAN :
       \E phi \in AttributionRows(Len(features.keys), V, raises) :
       \E self \in GetShapExplainer(shap_explainer, pipeline) :
        LET c == [ShapCall("shap_explanation") EXCEPT !.features = features]
            cached == {e \in redis.explanations : e.key = features.value}
            explanation == GetIndividualExplanation(self, features, raises, phi)
            result ==
                [features |-> features,
                 explanation |-> explanation,
                 summary |-> GetExplanationSummary(self, features, raises, phi),
                 total_features |-> Len(explanation),
                 explanation_available |-> Len(explanation) > 0]
        IN  IF ~redis.available
                THEN /\ call' = [c EXCEPT !.raised = TRUE]
                     /\ UNCHANGED <<shap_explainer, redis>>
            ELSE IF cached # {}
                THEN /\ call' = [c EXCEPT !.response = (CHOOSE e \in cached : TRUE).result]
                     /\ UNCHANGED <<shap_explainer, redis>>
            ELSE /\ shap_explainer' = self
                 /\ redis' = IF timeout THEN redis
                             ELSE [redis EXCEPT !.explanations =
                                      @ \cup {[key |-> features.value, result |-> result]}]
                 /\ call' = [c EXCEPT
                        !.raises = raises, !.phi = phi, !.reached = TRUE,
                        !.timed_out = timeout,
                        !.result = result,
                        !.response =
                            IF timeout
                                THEN ErrorMarker("SHAP explanation generation timed out.")
                            ELSE result]
    /\ UNCHANGED <<pipeline, cached_shap_values, worker_vars>>

\* A stored result reaches the end of its time to live.
RedisExpires ==
    /\ call.op = "none"
    /\ \/ \E key \in DOMAIN redis.store :
              redis' = [redis EXCEPT !.store = Expire(redis.store, key)]
       \/ \E e \in redis.explanations :
              redis' = [redis EXCEPT !.explanations = @ \ {e}]
    /\ UNCHANGED <<pipeline, call, shap_explainer, cached_shap_values, worker_vars>>

\* Explanations of single patients.
InitExplain ==
    /\ pipeline \in {None, ServedPipeline}
    /\ call = NoCall
    /\ shap_explainer = NoExplainer
    /\ cached_shap_values = <<>>
    /\ redis = Redis(FALSE)
    /\ requests = NoRequests
    /\ np_random = Unseeded

NextExplain ==
    \/ SetShapModelCall
    \/ IndividualExplanationCall(FeatureSamples, AttributionValues)
    \/ ExplanationSummaryCall(FeatureSamples, AttributionValues)
    \/ CallReturns

SpecExplain == InitExplain /\ [][NextExplain]_vars

\* The whole service, with its caches.
InitService ==
    /\ pipeline \in {None, ServedPipeline}
    /\ call = NoCall
    /\ shap_explainer = NoExplainer
    /\ cached_shap_values = <<>>
    /\ redis \in {Redis(TRUE), Redis(FALSE)}
    /\ requests = NoRequests
    /\ np_random = Unseeded

NextService ==
    \/ SetShapModelCall
    \/ IndividualExplanationCall(FewFeatureSamples, FewAttributionValues)
    \/ ExplanationSummaryCall(FewFeatureSamples, FewAttributionValues)
    \/ GlobalImportanceRoute
    \/ ComprehensiveRoute(FewFeatureSamples, FewAttributionValues)
    \/ ExplanationRoute(FewFeatureSamples, FewAttributionValues)
    \/ RedisExpires
    \/ CallReturns

SpecService == InitService /\ [][NextService]_vars

(***************************************************************************)
(* Requests to /shap/global side by side.  The route is a coroutine: at    *)
(* its await the event loop serves other requests, while the computation   *)
(* runs in a worker thread of the request's own ThreadPoolExecutor.  A     *)
(* request is at "waiting" (awaiting the future), "timed_out" (the         *)
(* TimeoutError left the with-block, whose exit joins the worker: the      *)
(* event loop is held meanwhile) or "done"; its worker is "queued",         *)
(* "missed" (not in the engine's cache), "sampling", "explaining" or        *)
(* "finished".                                                             *)
(***************************************************************************)
\* np.random.seed(seed), seed: int = 42
shap_seed == 42

\* The six np.random.uniform calls of the sample, one per feature.
SampleColumns == Len(feature_names)

\* sample_size of the concurrent requests.
ConcurrentSampleSizes == {20, 150}

\* Where the generator stands when column c of a sample of a given size
\* is drawn right after seeding, with nobody else drawing: (c - 1) *
\* sample_size values into the stream of the seed.
SeededState(sample_size, c) == [seed |-> shap_seed, drawn |-> (c - 1) * sample_size]

\* Beyond this many values no column of a sample starts, so the generator
\* is followed no further.
StreamHorizon == (SampleColumns - 1) * MaxSampleSize + 1

Advance(state, n) ==
    [state EXCEPT !.drawn = IF @ + n > StreamHorizon THEN StreamHorizon ELSE @ + n]

\* No request is inside the exit of its with-block.
EventLoopFree == \A r \in RequestIds : requests[r].pc # "timed_out"

Computing(r) == requests[r].worker \in {"missed", "sampling", "explaining"}

\* The route up to its await: clamp, Redis lookup, submit to the executor.
GlobalRequestStarts(r) ==
    /\ requests[r].pc = "idle"
    /\ EventLoopFree
    /\ \E requested \in ConcurrentSampleSizes :
        LET sample_size == Clamp(requested)
            q == [NoRequest EXCEPT !.requested = requested, !.sample_size = sample_size]
        IN  IF ~redis.available
                THEN /\ requests' = [requests EXCEPT ![r] =
                                        [q EXCEPT !.pc = "done", !.raised = TRUE]]
                     /\ UNCHANGED shap_explainer
            ELSE IF sample_size \in DOMAIN redis.store
                THEN /\ requests' = [requests EXCEPT ![r] =
                                        [q EXCEPT !.pc = "done",
                                                  !.response = redis.store[sample_size]]]
                     /\ UNCHANGED shap_explainer
            ELSE /\ requests' = [requests EXCEPT ![r] =
                                    [q EXCEPT !.pc = "waiting", !.worker = "queued"]]
                 /\ shap_explainer' \in GetShapExplainer(shap_explainer, pipeline)
    /\ UNCHANGED <<pipeline, call, cached_shap_values, redis, np_random>>

\* The worker enters get_global_feature_importance and the lru_cache
\* wrapper looks the sample size up.
WorkerLooksUp(r) ==
    LET n == requests[r].sample_size
    IN  /\ requests[r].worker = "queued"
        /\ IF shap_explainer.explainer = "none"
               THEN /\ requests' = [requests EXCEPT
                           ![r].worker = "finished",
                           ![r].result = ErrorMarker("SHAP explainer not available")]
                    /\ UNCHANGED cached_shap_values
           ELSE IF LruHas(cached_shap_values, n)
               THEN /\ requests' = [requests EXCEPT
                           ![r].worker = "finished",
                           ![r].result =
                               ImportanceResult(LruValue(cached_shap_values, n), n)]
                    /\ cached_shap_values' = LruTouch(cached_shap_values, n)
           ELSE /\ requests' = [requests EXCEPT ![r].worker = "missed"]
                /\ UNCHANGED cached_shap_values
        /\ UNCHANGED <<pipeline, call, shap_explainer, redis, np_random>>

\* np.random.seed(seed): the process-wide generator starts over.
WorkerSeeds(r) ==
    /\ requests[r].worker = "missed"
    /\ np_random' = [seed |-> shap_seed, drawn |-> 0]
    /\ requests' = [requests EXCEPT ![r].worker = "sampling"]
    /\ UNCHANGED <<pipeline, call, shap_vars>>

\* np.random.uniform(low, high, sample_size) for the next column: the
\* values come from wherever the process-wide generator stands.  The
\* request keeps how many columns it has and whether each was drawn where
\* the seed alone would have put it.
WorkerDraws(r) ==
    LET c == requests[r].columns + 1
        n == requests[r].sample_size
    IN  /\ requests[r].worker = "sampling"
        /\ np_random' = Advance(np_random, n)
        /\ requests' = [requests EXCEPT
               ![r].columns = c,
               ![r].as_seeded = @ /\ np_random = SeededState(n, c),
               ![r].worker = IF c = SampleColumns THEN "explaining" ELSE "sampling"]
        /\ UNCHANGED <<pipeline, call, shap_vars>>

\* explainer.shap_values(sample_data), the return of the body, and the
\* wrapper storing what the body returned.
WorkerExplains(r) ==
    LET n == requests[r].sample_size
    IN  /\ requests[r].worker = "explaining"
        /\ \E raises \in BOOLEAN :
            LET v == ComputeShapValues(shap_explainer, n, raises)
            IN  /\ cached_shap_values' = LruStore(cached_shap_values, n, v)
                /\ requests' = [requests EXCEPT
                       ![r].worker = "finished",
                       ![r].result = ImportanceResult(v, n)]
        /\ UNCHANGED <<pipeline, call, shap_explainer, redis, np_random>>

\* The future completes within the 20 seconds: a result without an error
\* is stored in Redis, and the result is the response.
ResultArrives(r) ==
    /\ requests[r].pc = "waiting"
    /\ requests[r].worker = "finished"
    /\ EventLoopFree
    /\ redis' = IF "error" \notin DOMAIN requests[r].result
                    THEN [redis EXCEPT !.store =
                              Setex(redis.store, requests[r].sample_size,
                                    requests[r].result)]
                ELSE redis
    /\ requests' = [requests EXCEPT ![r].pc = "done",
                                    ![r].response = requests[r].result]
    /\ UNCHANGED <<pipeline, call, shap_explainer, cached_shap_values, np_random>>

\* The 20 seconds pass first: wait_for raises TimeoutError inside the
\* with-block.
TimeoutFires(r) ==
    /\ requests[r].pc = "waiting"
    /\ requests[r].worker # "finished"
    /\ EventLoopFree
    /\ requests' = [requests EXCEPT ![r].pc = "timed_out"]
    /\ UNCHANGED <<pipeline, call, shap_vars, np_random>>

\* The exit of the with-block, executor.shutdown(wait=True), returns when
\* the worker has finished; then the except clause returns the timeout
\* error.
TimeoutResponds(r) ==
    /\ requests[r].pc = "timed_out"
    /\ requests[r].worker = "finished"
    /\ requests' = [requests EXCEPT
           ![r].pc = "done",
           ![r].response = ErrorMarker("SHAP computation timed out")]
    /\ UNCHANGED <<pipeline, call, shap_vars, np_random>>

\* The response is with the client; the slot serves the next request.
RequestReturns(r) ==
    /\ requests[r].pc = "done"
    /\ requests' = [requests EXCEPT ![r] = NoRequest]
    /\ UNCHANGED <<pipeline, call, shap_vars, np_random>>

\* The engine set_shap_model built when the application started: without
\* an explainer, or with the KernelExplainer fallback.
ServedExplainers ==
    {SHAPExplainer("none", "none"), SHAPExplainer("kernel", "ndarray2")}

InitConcurrent ==
    /\ pipeline = ServedPipeline
    /\ call = NoCall
    /\ shap_explainer \in ServedExplainers
    /\ cached_shap_values = <<>>
    /\ redis \in {Redis(TRUE), Redis(FALSE)}
    /\ requests = NoRequests
    /\ np_random = Unseeded

NextConcurrent ==
    \/ \E r \in RequestIds :
          \/ GlobalRequestStarts(r)
          \/ WorkerLooksUp(r)
          \/ WorkerSeeds(r)
          \/ WorkerDraws(r)
          \/ WorkerExplains(r)
          \/ ResultArrives(r)
          \/ TimeoutFires(r)
          \/ TimeoutResponds(r)
          \/ RequestReturns(r)
    \/ RedisExpires

SpecConcurrent == InitConcurrent /\ [][NextConcurrent]_vars

(***************************************************************************)
(* Evaluation of a trained model (src/evaluation.py).  Labels are the      *)
(* label encoder's integers, counted from 0 as in the code; class_names    *)
(* is a 1-based sequence, so class_names[k + 1] is the name of label k.    *)
(***************************************************************************)
\* Largest number of samples of an evaluation set.
MaxSamples == 3

\* config.risk_costs
risk_costs ==
    [false_negative_high |-> 10, false_positive_high |-> 3,
     false_negative_mid |-> 5, false_positive_mid |-> 2,
     false_negative_low |-> 1, false_positive_low |-> 1]

\* cost_matrix.get(true_name, {}).get(pred_name, 0)
CostMatrix(costs, true_name, pred_name) ==
    CASE true_name = "high risk" /\ pred_name \in {"low risk", "mid risk"} ->
             costs.false_negative_high
      [] true_name = "mid risk" /\ pred_name = "low risk" -> costs.false_negative_mid
      [] true_name = "mid risk" /\ pred_name = "high risk" -> costs.false_positive_mid
      [] true_name = "low risk" /\ pred_name \in {"mid risk", "high risk"} ->
             costs.false_positive_low
      [] OTHER -> 0

\* original_classes.tolist() of train.py: the classes as LabelEncoder sorts
\* them.
EvaluationClasses == <<"high risk", "low risk", "mid risk">>

Labels == 0..(Len(EvaluationClasses) - 1)

\* The pairs (true label, predicted label) in the order of the two loops.
LabelPairs ==
    [k \in 1..(Len(EvaluationClasses) * Len(EvaluationClasses)) |->
        [true_class_idx |-> (k - 1) \div Len(EvaluationClasses),
         pred_class_idx |-> (k - 1) % Len(EvaluationClasses)]]

\* np.sum((y_true == t) & (y_pred == p))
Misclassifications(y_true, y_pred, t, p) ==
    Cardinality({i \in DOMAIN y_true : y_true[i] = t /\ y_pred[i] = p})

\* calculate_clinical_cost: both loops run over np.unique(y_true).
CalculateClinicalCost(y_true, y_pred, class_names, costs) ==
    LET unique_classes == Range(y_true)
        term(pair) ==
            IF /\ pair.true_class_idx \in unique_classes
               /\ pair.pred_class_idx \in unique_classes
               /\ pair.true_class_idx # pair.pred_class_idx
                THEN Misclassifications(y_true, y_pred, pair.true_class_idx,
                                        pair.pred_class_idx)
                     * CostMatrix(costs, class_names[pair.true_class_idx + 1],
                                  class_names[pair.pred_class_idx + 1])
            ELSE 0
    IN  SeqSum([k \in DOMAIN LabelPairs |-> term(LabelPairs[k])])

\* {'prob_true': [], 'prob_pred': []}
EmptyCurve == [prob_true |-> <<>>, prob_pred |-> <<>>]

\* sklearn's calibration_curve is outside the repository.  It raises
\* ValueError for probabilities outside [0, 1] and for arrays of different
\* lengths; the curve it returns is stood for by one bin: the share of
\* positives and the mean predicted probability, in percent.
CalibrationCurveLibrary(y_true_binary, y_proba) ==
    IF \/ Len(y_true_binary) # Len(y_proba)
       \/ \E i \in DOMAIN y_proba : y_proba[i] < 0 \/ y_proba[i] > 100
        THEN [exception |-> "ValueError", value |-> EmptyCurve]
    ELSE [exception |-> "none",
          value |-> [prob_true |-> <<(100 * SeqSum(y_true_binary)) \div Len(y_true_binary)>>,
                     prob_pred |-> <<SeqSum(y_proba) \div Len(y_proba)>>]]

\* The try block of calculate_calibration_curve: [exception, value].
\* y_true is [ndarray, v]; y_pred_proba is [ndim, rows].  A list compared
\* with an integer is False, which has no astype; an index beyond the
\* columns, or a column of a one-dimensional array, is an IndexError.
CalibrationTry(y_true, y_pred_proba, class_names) ==
    IF "high risk" \notin Range(class_names)
        THEN [exception |-> "ValueError", value |-> EmptyCurve]
    ELSE LET high_risk_idx == IndexOf(class_names, "high risk") - 1
             y_true_binary ==
                 [i \in DOMAIN y_true.v |-> IF y_true.v[i] = high_risk_idx THEN 1 ELSE 0]
             y_proba_high ==
                 [i \in DOMAIN y_pred_proba.rows |->
                      y_pred_proba.rows[i][high_risk_idx + 1]]
         IN  IF ~y_true.ndarray
                 THEN [exception |-> "AttributeError", value |-> EmptyCurve]
             ELSE IF \/ y_pred_proba.ndim # 2
                     \/ \E i \in DOMAIN y_pred_proba.rows :
                            high_risk_idx + 1 > Len(y_pred_proba.rows[i])
                 THEN [exception |-> "IndexError", value |-> EmptyCurve]
             ELSE IF SeqSum(y_true_binary) > 0
                 THEN CalibrationCurveLibrary(y_true_binary, y_proba_high)
             ELSE [exception |-> "none", value |-> EmptyCurve]

CalculateCalibrationCurve_NamedErrorsOnly(y_true, y_pred_proba, class_names) ==
    LET t == CalibrationTry(y_true, y_pred_proba, class_names)
    IN  IF t.exception = "none" THEN [raised |-> FALSE, result |-> t.value]
        ELSE IF t.exception \in {"ValueError", "IndexError"}
            THEN [raised |-> FALSE, result |-> EmptyCurve]
        ELSE [raised |-> TRUE, result |-> EmptyCurve]

\* calculate_calibration_curve: [raised, result].  The first except clause
\* takes ValueError and IndexError, the second every other Exception.
CalculateCalibrationCurve(y_true, y_pred_proba, class_names) ==
    LET t == CalibrationTry(y_true, y_pred_proba, class_names)
    IN  IF t.exception = "none" THEN [raised |-> FALSE, result |-> t.value]
        ELSE IF t.exception \in {"ValueError", "IndexError"}
            THEN [raised |-> FALSE, result |-> EmptyCurve]
        ELSE [raised |-> FALSE, result |-> EmptyCurve]

\* Label vectors of up to MaxSamples samples.
LabelVectors == UNION {[1..n -> Labels] : n \in 0..MaxSamples}

\* Rows of predict_proba, in percent: a confident high, a confident mid,
\* one outside [0, 1], and one of a classifier with two classes.
ProbaRows == {<<70, 20, 10>>, <<10, 20, 70>>, <<120, -10, -10>>, <<60, 40>>}

\* y_pred_proba: matrices of equal rows, one per sample or one too few,
\* and a one-dimensional array.
ProbaMatrices(n) ==
    {[ndim |-> 2, rows |-> [i \in 1..m |-> row]] :
         row \in ProbaRows, m \in {n, n - 1} \cap (0..MaxSamples)}
    \cup {[ndim |-> 1, rows |-> <<>>]}

\* class_names: the encoder's order, the three classes in another order,
\* and an encoder that saw no high risk.
ClassNameLists ==
    {EvaluationClasses, <<"low risk", "mid risk", "high risk">>,
     <<"low risk", "mid risk">>}

\* The record of a completed call of an evaluation function.
EvalCall(op) ==
    [op |-> op, y_true |-> [ndarray |-> TRUE, v |-> <<>>], y_pred |-> <<>>,
     y_pred_proba |-> [ndim |-> 1, rows |-> <<>>], class_names |-> <<>>,
     raised |-> FALSE, result |-> <<>>]

\* calculate_clinical_cost(y, y_pred, class_names, risk_costs, logger), as
\* clinical_model_evaluation calls it.
ClinicalCostCall ==
    /\ call.op = "none"
    /\ \E y_true \in LabelVectors :
       \E y_pred \in [DOMAIN y_true -> Labels] :
        call' = [EvalCall("calculate_clinical_cost") EXCEPT
                    !.y_true = [ndarray |-> TRUE, v |-> y_true],
                    !.y_pred = y_pred,
                    !.class_names = EvaluationClasses,
                    !.result = CalculateClinicalCost(y_true, y_pred,
                                                     EvaluationClasses, risk_costs)]
    /\ UNCHANGED <<pipeline, shap_vars, worker_vars>>

\* calculate_calibration_curve(y, y_pred_proba, class_names, logger).
CalibrationCurveCall ==
    /\ call.op = "none"
    /\ \E v \in LabelVectors, ndarray \in BOOLEAN, class_names \in ClassNameLists :
       \E y_pred_proba \in ProbaMatrices(Len(v)) :
        LET y_true == [ndarray |-> ndarray, v |-> v]
            r == CalculateCalibrationCurve(y_true, y_pred_proba, class_names)
        IN  call' = [EvalCall("calculate_calibration_curve") EXCEPT
                        !.y_true = y_true,
                        !.y_pred_proba = y_pred_proba,
                        !.class_names = class_names,
                        !.raised = r.raised,
                        !.result = r.result]
    /\ UNCHANGED <<pipeline, shap_vars, worker_vars>>

InitEval ==
    /\ pipeline = None
    /\ call = NoCall
    /\ shap_explainer = NoExplainer
    /\ cached_shap_values = <<>>
    /\ redis = Redis(FALSE)
    /\ requests = NoRequests
    /\ np_random = Unseeded

NextEval == ClinicalCostCall \/ CalibrationCurveCall \/ CallReturns

SpecEval == InitEval /\ [][NextEval]_vars

(***************************************************************************)
(* Inference on the shared bundle: what predict leaves behind on the       *)
(* pipeline object and on the caller's frame.  The explainer is the object *)
(* __init__ built: a TreeExplainer, the KernelExplainer fallback when      *)
(* TreeExplainer refuses the classifier, or None.  `last_instance` stands  *)
(* for the working attributes KernelExplainer.explain assigns on the       *)
(* explainer itself for the row it explains (varyingInds, M, nsamples,     *)
(* synth_data, maskMatrix, kernelWeights, y, ey); <<>> before any row.     *)
(***************************************************************************)
PipelineExplainer(type) == [type |-> type, last_instance |-> <<>>]

\* The pipeline with its explainer object spelled out.
SharedPipeline(self, type) ==
    [f \in DOMAIN self \cup {"explainer"} |->
        IF f = "explainer" THEN PipelineExplainer(type) ELSE self[f]]

\* FeatureEngineer.transform: X_copy = X.copy(), every engineered column is
\* assigned on X_copy, X_copy is returned.
TransformFrames(X) ==
    [caller |-> X,
     X_copy |-> [columns |-> EngineeredColumns(X), rows |-> Transform(X).rows]]

\* self.shap_explainer.shap_values(X_engineered): the explainer objects the
\* call can leave behind.  TreeExplainer reads its tree arrays only.
\* KernelExplainer explains the rows one after the other, each time
\* assigning its working attributes from the row, so that after the call
\* they are those of the last row; when the call raises, it raised before
\* the first row or while explaining it.
ShapValuesWrites(explainer, kind, rows) ==
    IF explainer.type # "kernel" \/ rows = <<>> THEN {explainer}
    ELSE IF kind = "raises"
        THEN {explainer, [explainer EXCEPT !.last_instance = rows[1]]}
    ELSE {[explainer EXCEPT !.last_instance = rows[Len(rows)]]}

\* predict: the bundles and the caller's frame after the call.  No statement
\* of predict assigns an attribute of self, X is rebound but never written,
\* and the SHAP step is the only call that writes to an object of the bundle.
PredictEffects(self, X) ==
    LET out == Predict(self, X)
        frames == TransformFrames(X)
        entered == \E i \in DOMAIN out.stages : out.stages[i] = "shap"
    IN  [bundles |-> IF entered
                         THEN {[self EXCEPT !.explainer = e] :
                                  e \in ShapValuesWrites(self.explainer,
                                                         self.shap_explainer,
                                                         frames.caller.rows)}
                     ELSE {self},
         data |-> frames.caller,
         out |-> out]

\* One classifier, each explainer __init__ can build and each way its
\* shap_values answers.
InferenceExplainers ==
    {<<"none", "none">>, <<"tree", "list">>, <<"tree", "ndarray">>,
     <<"kernel", "list">>, <<"kernel", "ndarray">>, <<"kernel", "raises">>}

InferencePipelines ==
    {SharedPipeline(MaternalRiskPipeline(<<"high risk", "low risk", "mid risk">>,
                                         DefaultConfig, [ncols |-> 3, shift |-> 0],
                                         StandardScaler(TRUE), e[2]), e[1]) :
        e \in InferenceExplainers}

\* A call of pipeline.predict on the shared bundle; `bundle` is the pipeline
\* as the call found it and `data` the caller's frame as the call left it.
InferenceCall ==
    /\ call.op = "none"
    /\ \E X \in Frames :
        LET eff == PredictEffects(pipeline, X)
        IN  /\ pipeline' \in eff.bundles
            /\ call' = [op |-> "predict", probs |-> NoProbs, X |-> X,
                        alert |-> NoAlert, out |-> eff.out, risk |-> NoRisk,
                        bundle |-> pipeline, data |-> eff.data]
    /\ UNCHANGED <<shap_vars, worker_vars>>

InitInference ==
    /\ pipeline \in InferencePipelines
    /\ call = NoCall
    /\ shap_explainer = NoExplainer
    /\ cached_shap_values = <<>>
    /\ redis = Redis(FALSE)
    /\ requests = NoRequests
    /\ np_random = Unseeded

NextInference == InferenceCall \/ CallReturns

SpecInference == InitInference /\ [][NextInference]_vars

(***************************************************************************)
(* Feature engineering alone: FeatureEngineer.transform on frames whose    *)
(* ages lie on both sides of the two edges of the age bins.                *)
(***************************************************************************)
AgeSamples == 10..45

AgeFrames ==
    {[columns |-> required_cols, rows |-> rs] :
        rs \in UNION {[1..n -> {[NormalRow EXCEPT !["Age"] = Cell(a)] :
                                   a \in AgeSamples}] : n \in 0..2}}

\* A call of feature_engineer.transform (pipeline.py:283, train.py).
TransformCall ==
    /\ call.op = "none"
    /\ \E X \in AgeFrames \cup PartialFrames :
        LET fe == Transform(X)
        IN  call' = [op |-> "transform", probs |-> NoProbs, X |-> X,
                     alert |-> NoAlert, out |-> NoOutcome, risk |-> NoRisk,
                     raised |-> fe.raised, engineered |-> fe.rows]
    /\ UNCHANGED <<pipeline, shap_vars, worker_vars>>

InitFeatures ==
    /\ pipeline = None
    /\ call = NoCall
    /\ shap_explainer = NoExplainer
    /\ cached_shap_values = <<>>
    /\ redis = Redis(FALSE)
    /\ requests = NoRequests
    /\ np_random = Unseeded

NextFeatures == TransformCall \/ CallReturns

SpecFeatures == InitFeatures /\ [][NextFeatures]_vars

(***************************************************************************)
(* _generate_alert under label encoders whose classes_ hold the three risk *)
(* levels in each of their six orders (_setup_risk_indices looks the       *)
(* positions up by name, whatever the order).                              *)
(***************************************************************************)
ClassOrders ==
    {<<"high risk", "low risk", "mid risk">>, <<"high risk", "mid risk", "low risk">>,
     <<"low risk", "high risk", "mid risk">>, <<"low risk", "mid risk", "high risk">>,
     <<"mid risk", "high risk", "low risk">>, <<"mid risk", "low risk", "high risk">>}

OrderedPipelines ==
    {MaternalRiskPipeline(cl, DefaultConfig, [ncols |-> 3, shift |-> 0],
                          StandardScaler(TRUE), "none") : cl \in ClassOrders}

InitOrder ==
    /\ pipeline \in OrderedPipelines
    /\ call = NoCall
    /\ shap_explainer = NoExplainer
    /\ cached_shap_values = <<>>
    /\ redis = Redis(FALSE)
    /\ requests = NoRequests
    /\ np_random = Unseeded

NextOrder == GenerateAlertCall \/ CallReturns

SpecOrder == InitOrder /\ [][NextOrder]_vars



(***************************************************************************)
(* Properties of _generate_alert.                                          *)
(***************************************************************************)
\* The probability argument of the completed call passes the three input
\* checks: an array, as long as the class list, summing to 1 within 1%.
PassesInputChecks ==
    /\ call.probs.ndarray
    /\ Len(call.probs.v) = Len(pipeline.classes)
    /\ SeqSum(call.probs.v) \in 99..101

\* k is the position of the largest probability, the first one on a tie.
IsArgMax(v, k) ==
    /\ k \in DOMAIN v
    /\ \A j \in DOMAIN v : v[j] <= v[k]
    /\ \A j \in DOMAIN v : j < k => v[j] < v[k]

HasThresholds == pipeline.config.has = ThresholdAttrs

\* C1: for an argument that passes the input checks (and a config carrying
\* the three thresholds), with k the argmax and p its probability,
\* _generate_alert returns the first matching row of: class k is 'high risk'
\* and p >= high_risk_threshold -> HIGH_ALERT/CRITICAL; 'mid risk' and
\* p >= mid_risk_threshold -> MEDIUM_ALERT/MODERATE; 'low risk' and
\* p >= low_risk_confidence -> LOW_ALERT/LOW; otherwise
\* NO_SPECIFIC_ALERT/LOW.  The comparisons are inclusive, risk_score is p and
\* risk_category is the class name at k.
C1_AlertDecisionTable ==
    (call.op = "generate_alert" /\ PassesInputChecks /\ HasThresholds) =>
        \A k \in DOMAIN call.probs.v :
            IsArgMax(call.probs.v, k) =>
                LET p == call.probs.v[k]
                    name == pipeline.classes[k]
                    cfg == pipeline.config
                    level ==
                        IF name = "high risk" /\ p >= cfg.high_risk_threshold
                            THEN <<"HIGH_ALERT", "CRITICAL">>
                        ELSE IF name = "mid risk" /\ p >= cfg.mid_risk_threshold
                            THEN <<"MEDIUM_ALERT", "MODERATE">>
                        ELSE IF name = "low risk" /\ p >= cfg.low_risk_confidence
                            THEN <<"LOW_ALERT", "LOW">>
                        ELSE <<"NO_SPECIFIC_ALERT", "LOW">>
                IN  /\ ~call.out.raised
                    /\ call.alert.level = level[1]
                    /\ call.alert.urgency = level[2]
                    /\ call.alert.risk_score = p
                    /\ call.alert.risk_category = name

\* C1 witness: a high-risk probability equal to the threshold has alerted.
C1_Witness ==
    /\ call.op = "generate_alert" /\ PassesInputChecks /\ HasThresholds
    /\ \E k \in DOMAIN call.probs.v :
        /\ IsArgMax(call.probs.v, k)
        /\ pipeline.classes[k] = "high risk"
        /\ call.probs.v[k] = pipeline.config.high_risk_threshold
    /\ call.alert.level = "HIGH_ALERT"

SumOkInputs ==
    {[ndarray |-> TRUE, v |-> v] : v \in {w \in AlertVectors : SeqSum(w) \in 99..101}}

SpecificLevels == {"HIGH_ALERT", "MEDIUM_ALERT", "LOW_ALERT"}

\* C3: monotonicity.  With the argmax class and the thresholds fixed, if p
\* gave HIGH_ALERT, MEDIUM_ALERT or LOW_ALERT then every p' >= p for that
\* class gives the same level, and if p gave NO_SPECIFIC_ALERT then every
\* p' <= p for that class gives NO_SPECIFIC_ALERT too.
C3_AlertMonotone ==
    (call.op = "generate_alert" /\ ~call.out.raised) =>
        \A q \in SumOkInputs :
            (/\ Len(q.v) = Len(pipeline.classes)
             /\ \E k \in DOMAIN q.v :
                    IsArgMax(q.v, k) /\ IsArgMax(call.probs.v, k)) =>
                LET k == CHOOSE k \in DOMAIN q.v : IsArgMax(q.v, k)
                    other == GenerateAlert(pipeline, q)
                IN  /\ (call.alert.level \in SpecificLevels
                        /\ q.v[k] >= call.probs.v[k]) =>
                            (~other.raised /\ other.alert.level = call.alert.level)
                    /\ (call.alert.level = "NO_SPECIFIC_ALERT"
                        /\ q.v[k] <= call.probs.v[k]) =>
                            (~other.raised /\ other.alert.level = "NO_SPECIFIC_ALERT")

\* C3 witness: a mid-risk probability above its threshold has given
\* MEDIUM_ALERT, and a larger one for the same class exists to compare with.
C3_Witness ==
    /\ call.op = "generate_alert" /\ call.alert.level = "MEDIUM_ALERT"
    /\ \E q \in SumOkInputs :
        /\ Len(q.v) = Len(pipeline.classes)
        /\ \E k \in DOMAIN q.v :
            /\ IsArgMax(q.v, k) /\ IsArgMax(call.probs.v, k)
            /\ q.v[k] > call.probs.v[k]
(***************************************************************************)
(* Properties of predict.                                                  *)
(***************************************************************************)
IsPredict == call.op = "predict"

\* The frame of the completed call has every required column, and no null
\* in them.
AllColumnsPresent == \A c \in Range(required_cols) : c \in Range(call.X.columns)
MissingColumns == {c \in Range(required_cols) : c \notin Range(call.X.columns)}
NullColumns ==
    {c \in Range(required_cols) : \E i \in DOMAIN call.X.rows : call.X.rows[i][c].isnull}
OutOfRangeColumns ==
    {c \in Range(required_cols) :
        \E i \in DOMAIN call.X.rows :
            \/ call.X.rows[i][c].v < clinical_ranges[c][1]
            \/ call.X.rows[i][c].v > clinical_ranges[c][2]}

\* s lists exactly the members of S, once each, in the order of required_cols.
ListsInCanonicalOrder(s, S) ==
    /\ Range(s) = S
    /\ Len(s) = Cardinality(S)
    /\ \A i, j \in DOMAIN s :
        i < j => \E a, b \in DOMAIN required_cols :
                    a < b /\ required_cols[a] = s[i] /\ required_cols[b] = s[j]

\* The classifier's probability row for row i of the completed call's frame.
ClassifierRow(i) ==
    PredictProba(pipeline.model,
                 AlignedRow(EngineerRow(call.X.rows[i]), EngineeredColumns(call.X)))

\* The classifier was called and returned (it did not raise).
ClassifierReturned ==
    /\ Len(call.out.stages) >= 4
    /\ \A i \in DOMAIN call.X.rows : ClassifierRow(i) # Raise

Malformed(v) == SeqSum(v) \notin 99..101 \/ Len(v) # Len(pipeline.classes)

\* C4: if the classifier returns, for any row, a probability vector whose
\* sum is not within 1% of 1 or whose length is not the class count, predict
\* raises and returns no result: no alert is derived from such a vector.
C4_MalformedVectorFailsPredict ==
    (/\ IsPredict
     /\ ClassifierReturned
     /\ \E i \in DOMAIN call.X.rows : Malformed(ClassifierRow(i))) =>
        /\ call.out.raised
        /\ call.out.results = <<>>

\* C4 witness: a two-row batch whose first row got a well-formed vector and
\* whose second row got one with a bad sum; predict has raised.
C4_Witness ==
    /\ IsPredict /\ ClassifierReturned /\ Len(call.X.rows) = 2
    /\ ~Malformed(ClassifierRow(1))
    /\ SeqSum(ClassifierRow(2)) \notin 99..101
    /\ call.out.raised /\ call.out.error = "sum"

\* C5, as claimed: a failure of feature engineering, scaling or the
\* classifier is surfaced as an error and never turned into a risk result:
\* no caller of the inference surface gets a risk level for such an input.
C5_FailureNeverBecomesRiskResult ==
    (/\ call.op \in {"predict", "predict_risk"}
     /\ call.out.raised
     /\ call.out.error \in {"transform", "model"}) =>
        /\ call.out.results = <<>>
        /\ call.risk.risk_level = ""

\* C6: input lacking required columns raises the missing-column error, whose
\* list names exactly the missing columns in the canonical order, before any
\* feature engineering, scaling or model call; an empty input names all six.
C6_MissingColumnsNamed ==
    (IsPredict /\ MissingColumns # {}) =>
        /\ call.out.raised
        /\ call.out.error = "missing"
        /\ ListsInCanonicalOrder(call.out.error_cols, MissingColumns)
        /\ call.out.stages = <<"validate">>
        /\ call.out.results = <<>>
        /\ (call.X.columns = <<>> => call.out.error_cols = required_cols)

\* C6 witness: a frame with only Age and BodyTemp was rejected, naming the
\* other four columns.
C6_Witness ==
    /\ IsPredict
    /\ Range(call.X.columns) = {"Age", "BodyTemp"}
    /\ call.out.error = "missing"
    /\ call.out.error_cols = <<"SystolicBP", "DiastolicBP", "BS", "HeartRate">>

\* C7: with all six columns present and a null in at least one of them, in
\* any row, predict raises the null error naming exactly the required
\* columns that hold a null, before any feature engineering, scaling or
\* model call.
C7_NullColumnsNamed ==
    (IsPredict /\ AllColumnsPresent /\ NullColumns # {}) =>
        /\ call.out.raised
        /\ call.out.error = "null"
        /\ Range(call.out.error_cols) = NullColumns
        /\ Len(call.out.error_cols) = Cardinality(NullColumns)
        /\ call.out.stages = <<"validate">>
        /\ call.out.results = <<>>

\* C7 witness: a two-row batch with a null in a different column of each row
\* was rejected, naming both columns.
C7_Witness ==
    /\ IsPredict /\ AllColumnsPresent /\ Len(call.X.rows) = 2
    /\ \E c, d \in Range(required_cols) :
        /\ c # d
        /\ call.X.rows[1][c].isnull /\ ~call.X.rows[2][c].isnull
        /\ call.X.rows[2][d].isnull /\ ~call.X.rows[1][d].isnull
        /\ Range(call.out.error_cols) = {c, d}
    /\ call.out.error = "null"

\* C8, as claimed: a value outside its clinical range never blocks
\* prediction.  For input (of at least one row) with every required column
\* present and non-null, predict logs a warning for each out-of-range column
\* and goes on through feature engineering and scaling to the classifier, as
\* for in-range input.
C8_OutOfRangeNeverBlocks ==
    (IsPredict /\ AllColumnsPresent /\ NullColumns = {} /\ call.X.rows # <<>>) =>
        /\ Range(call.out.warnings) = OutOfRangeColumns
        /\ call.out.error \notin {"missing", "null", "transform"}
        /\ Len(call.out.stages) >= 4

\* The probabilities of a result, in the order of the class list.
ProbabilityList(r) == [j \in DOMAIN pipeline.classes |-> r.probability[pipeline.classes[j]]]

\* C9: in every result predict returns, the probability mapping has exactly
\* one entry per class of the label encoder and its values sum to 1 within
\* 0.01.
C9_ProbabilityMappingWellFormed ==
    (call.op \in {"predict", "predict_risk"}) =>
        \A i \in DOMAIN call.out.results :
            LET r == call.out.results[i]
            IN  /\ DOMAIN r.probability = Range(pipeline.classes)
                /\ Cardinality(DOMAIN r.probability) = Len(pipeline.classes)
                /\ SeqSum(ProbabilityList(r)) \in 99..101

\* C9 witness: predict returned a result for a four-class encoder, and one
\* whose probabilities sum to 1.01.
C9_Witness ==
    /\ IsPredict /\ ~call.out.raised /\ call.out.results # <<>>
    /\ \/ Len(pipeline.classes) = 4
       \/ SeqSum(ProbabilityList(call.out.results[1])) = 101

\* C10, as claimed: every probability in every returned result, and every
\* risk_score of a non-ERROR alert, lies in [0, 1]; a classifier output
\* holding a value below 0 or above 1 never gives a returned result.
C10_ProbabilitiesInUnitInterval ==
    (call.op \in {"predict", "predict_risk"}) =>
        \A i \in DOMAIN call.out.results :
            LET r == call.out.results[i]
            IN  /\ \A c \in DOMAIN r.probability : r.probability[c] \in 0..100
                /\ r.alert.level # "ERROR" => r.alert.risk_score \in 0..100

(***************************************************************************)
(* Properties of batch prediction.                                         *)
(***************************************************************************)
\* predict on row i of the completed call's frame, submitted alone.
Alone(i) == Predict(pipeline, [columns |-> call.X.columns, rows |-> <<call.X.rows[i]>>])

\* The fields of a result that depend on its row only.
NumericPart(r) ==
    [predicted_risk_level |-> r.predicted_risk_level, probability |-> r.probability,
     alert |-> r.alert, confidence_score |-> r.confidence_score]

\* C11: for a batch of n >= 1 valid rows (rows predict accepts when they are
\* submitted alone), predict returns exactly n results, and the i-th result
\* has the predicted_risk_level, probabilities, alert and confidence_score
\* returned when the i-th row is submitted alone.
C11_RowsIndependent ==
    (/\ IsPredict
     /\ call.X.rows # <<>>
     /\ \A i \in DOMAIN call.X.rows : ~Alone(i).raised) =>
        /\ ~call.out.raised
        /\ Len(call.out.results) = Len(call.X.rows)
        /\ \A i \in DOMAIN call.X.rows :
            /\ Len(Alone(i).results) = 1
            /\ NumericPart(call.out.results[i]) = NumericPart(Alone(i).results[1])

\* C11 witness: a two-row batch was answered with two results that differ
\* in risk level and in alert, by a pipeline that has an explainer.
C11_Witness ==
    /\ IsPredict /\ ~call.out.raised /\ Len(call.out.results) = 2
    /\ pipeline.shap_explainer # "none"
    /\ call.out.results[1].predicted_risk_level # call.out.results[2].predicted_risk_level
    /\ call.out.results[1].alert.level # call.out.results[2].alert.level

\* Row i of the completed call's frame holds a null in a required column.
RowHasNull(i) == \E c \in Range(required_cols) : call.X.rows[i][c].isnull

\* Row i's probability vector fails the input checks of _generate_alert.
RowVectorRejected(i) ==
    /\ ClassifierReturned
    /\ AlertInputError(pipeline, [ndarray |-> TRUE, v |-> ClassifierRow(i)]) # ""

\* C12: batch prediction is all-or-nothing.  If any row of a batch (with all
\* six columns) has a null required field, or gets a probability vector that
\* fails the alert input checks, predict raises and returns no result for
\* any row, the valid rows before the bad one included.
C12_BatchAllOrNothing ==
    (/\ IsPredict /\ AllColumnsPresent
     /\ \E i \in DOMAIN call.X.rows : RowHasNull(i) \/ RowVectorRejected(i)) =>
        /\ call.out.raised
        /\ call.out.results = NoResults

\* C12 witness: the first row of a two-row batch is valid (predict answers
\* it when it is submitted alone), the second is not, and predict raised.
C12_Witness ==
    /\ IsPredict /\ AllColumnsPresent /\ Len(call.X.rows) = 2
    /\ ~RowHasNull(1) /\ ~Alone(1).raised
    /\ (RowHasNull(2) \/ RowVectorRejected(2))
    /\ call.out.raised /\ call.out.results = NoResults

\* Feature engineering, scaling and classification succeed on the completed
\* call's frame: the input is valid, the scaler accepts the engineered
\* frame, and the classifier answers every row with a class the encoder
\* knows and a probability vector that passes the alert input checks.
ClassificationSucceeds ==
    /\ AllColumnsPresent /\ NullColumns = {}
    /\ ~ScalerNamesRaise(pipeline.scaler, EngineeredColumns(call.X))
    /\ ~ScalerRaises(Transform(call.X).rows)
    /\ \A i \in DOMAIN call.X.rows :
        /\ ClassifierRow(i) # Raise
        /\ ArgMax(ClassifierRow(i)) <= Len(pipeline.classes)
        /\ AlertInputError(pipeline, [ndarray |-> TRUE, v |-> ClassifierRow(i)]) = ""

\* The same pipeline without an explainer.
WithoutExplainer == [pipeline EXCEPT !.shap_explainer = "none"]

\* C13: explanation is best-effort inside predict.  Whenever feature
\* engineering, scaling and classification succeed, predict returns one
\* result per row, with the predicted_risk_level, probabilities, alert and
\* confidence_score the pipeline gives without any explainer; when the
\* explainer is absent or its SHAP computation raises, the explanation
\* field of every result is the empty list.
C13_ExplanationBestEffort ==
    (IsPredict /\ ClassificationSucceeds) =>
        /\ ~call.out.raised
        /\ Len(call.out.results) = Len(call.X.rows)
        /\ \A i \in DOMAIN call.out.results :
            /\ NumericPart(call.out.results[i])
                  = NumericPart(Predict(WithoutExplainer, call.X).results[i])
            /\ pipeline.shap_explainer \in {"none", "raises"} =>
                   call.out.results[i].explanation = <<>>

\* C13 witness: the explainer raised on a two-row batch, and predict
\* returned two results with an alert each and no explanation.
C13_Witness ==
    /\ IsPredict /\ ClassificationSucceeds
    /\ pipeline.shap_explainer = "raises"
    /\ ~call.out.raised /\ Len(call.out.results) = 2
    /\ \A i \in 1..2 :
        /\ call.out.results[i].alert.level # ""
        /\ call.out.results[i].explanation = <<>>

\* C14, as claimed: numeric prediction and alerting are never delayed by
\* explanation computation: the alert and the probability result of a row
\* reach the caller of predict without waiting for the SHAP attribution of
\* that call.  The stages of a completed call are the steps predict ran
\* before it returned, so no returned result has the SHAP step behind it.
C14_ResultNotBehindShap ==
    (IsPredict /\ ~call.out.raised /\ call.out.results # NoResults) =>
        "shap" \notin Range(call.out.stages)

\* The frame of the completed call holds the six required columns, and no
\* others, in another order than the one the scaler was fitted with.
ColumnsReordered ==
    /\ Range(call.X.columns) = Range(required_cols)
    /\ Len(call.X.columns) = Len(required_cols)
    /\ call.X.columns # required_cols

\* C16, as claimed: a column order at transform time that differs from the
\* order the scaler was fitted with fails loudly.  predict on input whose
\* required columns are all present but arranged in another order raises,
\* and returns no prediction computed from misaligned features.
C16_ReorderedColumnsFail ==
    (IsPredict /\ ColumnsReordered) =>
        /\ call.out.raised
        /\ call.out.results = NoResults

(***************************************************************************)
(* Properties of the pipeline object.                                      *)
(***************************************************************************)
\* C15, as claimed: no pipeline object that can serve a request has an
\* unresolved risk class.  On every path that yields a pipeline (the
\* constructor and load_model) an encoder lacking 'high risk', 'mid risk'
\* or 'low risk' makes the path fail, so every pipeline there is holds the
\* three names, and high_risk_idx, mid_risk_idx, low_risk_idx are valid,
\* pairwise distinct indices into the class list, each at its name.
C15_RiskClassesResolved ==
    pipeline # None =>
        /\ \A c \in Range(expected_classes) : c \in Range(pipeline.classes)
        /\ {pipeline.high_risk_idx, pipeline.mid_risk_idx, pipeline.low_risk_idx}
               \subseteq DOMAIN pipeline.classes
        /\ Cardinality({pipeline.high_risk_idx, pipeline.mid_risk_idx,
                        pipeline.low_risk_idx}) = 3
        /\ pipeline.classes[pipeline.high_risk_idx] = "high risk"
        /\ pipeline.classes[pipeline.mid_risk_idx] = "mid risk"
        /\ pipeline.classes[pipeline.low_risk_idx] = "low risk"

(***************************************************************************)
(* Properties of the explanation service.                                  *)
(***************************************************************************)
\* The value is the dict {"error": message} and nothing else.
IsErrorMarker(r) == DOMAIN r = {"error"}

\* The engine has no explainer.
ExplainerIsNone == shap_explainer # NoExplainer /\ shap_explainer.explainer = "none"

\* C17: on an engine without an explainer every explanation call degrades:
\* get_individual_explanation returns the empty list,
\* get_explanation_summary returns an error marker and no summary, and
\* get_global_feature_importance returns an error marker and no ranking,
\* having computed nothing.  Without a model there is never an explainer.
C17_NoExplainerDegrades ==
    /\ (shap_explainer # NoExplainer /\ pipeline = None) => ExplainerIsNone
    /\ ExplainerIsNone =>
        /\ call.op = "get_individual_explanation" => call.result = <<>>
        /\ call.op = "get_explanation_summary" => IsErrorMarker(call.result)
        /\ (call.op = "shap_global" /\ call.reached) =>
              /\ IsErrorMarker(call.result)
              /\ call.computed_over = 0
              /\ cached_shap_values = <<>>

\* C17: /shap/global has asked an engine without a model, hence without an
\* explainer, for the global importance.
C17_Witness ==
    /\ call.op = "shap_global"
    /\ call.reached
    /\ pipeline = None
    /\ ExplainerIsNone
    /\ call.result = ErrorMarker("SHAP explainer not available")

\* C18: a non-empty individual explanation is in non-increasing order of
\* absolute contribution, the entry at position i has importance_rank i
\* (positions counted from 1), and entries of equal absolute contribution
\* are in the order of feature_names.
C18_ExplanationRanked ==
    (call.op = "get_individual_explanation" /\ call.result # <<>>) =>
        LET r == call.result
            n == Len(r)
        IN  /\ \A i \in 1..(n - 1) : r[i].abs_shap_value >= r[i + 1].abs_shap_value
            /\ \A i \in 1..n : r[i].importance_rank = i
            /\ \A i \in 1..n : r[i].abs_shap_value = Abs(r[i].shap_value)
            /\ \A i, j \in 1..n :
                  (i < j /\ r[i].abs_shap_value = r[j].abs_shap_value) =>
                      IndexOf(feature_names, r[i].feature)
                          < IndexOf(feature_names, r[j].feature)

\* C18: an explanation of all six features was returned in which the sort
\* moved an entry to the front and two entries tie.
C18_Witness ==
    /\ call.op = "get_individual_explanation"
    /\ Len(call.result) = 6
    /\ call.result[1].feature # "Age"
    /\ call.result[1].abs_shap_value > call.result[6].abs_shap_value
    /\ \E i \in 1..5 :
          call.result[i].abs_shap_value = call.result[i + 1].abs_shap_value

\* The individual explanation of the measurements of the completed call.
IndividualOfCall ==
    GetIndividualExplanation(shap_explainer, call.features, call.raises, call.phi)

\* C19: get_explanation_summary returns an error marker exactly when the
\* individual explanation is empty.  Otherwise the positive and the
\* negative contributors are disjoint and together are all the entries,
\* each total is the sum of the contributions of its list, the most
\* important feature is the entry of rank 1, the top contributing features
\* are the first min(3, n) entries, and the quality is "high" exactly when
\* n >= 4 and "medium" otherwise.
C19_SummaryConsistent ==
    call.op = "get_explanation_summary" =>
        LET ie == IndividualOfCall
            s == call.result
            n == Len(ie)
        IN  /\ IsErrorMarker(s) <=> ie = <<>>
            /\ ie # <<>> =>
                /\ "error" \notin DOMAIN s
                /\ Range(s.positive_contributors) \cap Range(s.negative_contributors) = {}
                /\ Range(s.positive_contributors) \cup Range(s.negative_contributors)
                       = Range(ie)
                /\ Len(s.positive_contributors) + Len(s.negative_contributors) = n
                /\ s.total_positive_impact
                       = SeqSum([j \in DOMAIN s.positive_contributors |->
                                     s.positive_contributors[j].shap_value])
                /\ s.total_negative_impact
                       = SeqSum([j \in DOMAIN s.negative_contributors |->
                                     s.negative_contributors[j].shap_value])
                /\ s.most_important_feature \in Range(ie)
                /\ s.most_important_feature.importance_rank = 1
                /\ s.top_contributing_features = SubSeq(ie, 1, IF n < 3 THEN n ELSE 3)
                /\ s.explanation_quality = (IF n >= 4 THEN "high" ELSE "medium")

\* C19: a summary of three explained features, with contributors of both
\* signs, was returned.
C19_Witness ==
    /\ call.op = "get_explanation_summary"
    /\ Len(IndividualOfCall) = 3
    /\ call.result.explanation_quality = "medium"
    /\ call.result.positive_contributors # <<>>
    /\ call.result.negative_contributors # <<>>

C21_ComputedAtMostOnce ==
    /\ Len(cached_shap_values) <= lru_maxsize
    /\ \A r \in RequestIds :
          Computing(r) => ~LruHas(cached_shap_values, requests[r].sample_size)
    /\ \A r1, r2 \in RequestIds :
          (r1 # r2 /\ Computing(r1) /\ Computing(r2)) =>
              requests[r1].sample_size # requests[r2].sample_size

\* C22: once the timeout of a request has passed, its timed-out response
\* can be given at once, whatever its worker thread is doing.
C22_TimeoutDoesNotWait ==
    \A r \in RequestIds :
        requests[r].pc = "timed_out" => ENABLED TimeoutResponds(r)

\* C23: no failure is kept in a cache and served later.  The engine's cache
\* holds no failed computation, so a call answered from it without
\* computing is not answered with the failure; and Redis holds neither an
\* error result of /shap/global nor an explanation that is not available.
C23_FailuresNotCached ==
    /\ \A i \in DOMAIN cached_shap_values : cached_shap_values[i].value.available
    /\ (call.op \in {"shap_global", "shap_comprehensive"} /\ call.reached
           /\ ~ExplainerIsNone /\ call.computed_over = 0) =>
          call.result # ErrorMarker("Could not compute SHAP values")
    /\ \A k \in DOMAIN redis.store : ~IsErrorMarker(redis.store[k])
    /\ \A e \in redis.explanations :
          /\ e.result.explanation_available
          /\ ~IsErrorMarker(e.result.summary)

\* C27: every column of a sample a worker draws is drawn where seeding
\* with 42 and drawing alone would put it, so a sample of a given size is
\* the same in every execution.
C27_SampleReproducible ==
    \A r \in RequestIds : requests[r].as_seeded

(***************************************************************************)
(* Properties of the evaluation functions.                                 *)
(***************************************************************************)
\* The cost of the misclassified samples, one by one.
CostOfSamples(y_true, y_pred, class_names, costs) ==
    SeqSum([i \in DOMAIN y_true |->
               IF y_true[i] # y_pred[i]
                   THEN CostMatrix(costs, class_names[y_true[i] + 1],
                                   class_names[y_pred[i] + 1])
               ELSE 0])

\* C24: the clinical cost is the sum, over the pairs (true class, predicted
\* class) of different classes that occur in the data, of the number of
\* samples of the pair times its cost: every misclassified sample counts,
\* also one predicted as a class that is no sample's true class.
C24_ClinicalCostIsSumOverPairs ==
    call.op = "calculate_clinical_cost" =>
        call.result = CostOfSamples(call.y_true.v, call.y_pred, call.class_names,
                                    risk_costs)

\* The calibration curve cannot be computed: no sample is high risk, high
\* risk is not a class name, or a step of the computation fails.
CalibrationFails ==
    \/ "high risk" \notin Range(call.class_names)
    \/ \A i \in DOMAIN call.y_true.v :
           call.y_true.v[i] # IndexOf(call.class_names, "high risk") - 1
    \/ CalibrationTry(call.y_true, call.y_pred_proba, call.class_names).exception
           # "none"

\* C25: calculate_calibration_curve never raises, and returns the empty
\* curve when no sample is high risk, when high risk is not among the class
\* names and when anything else fails.
C25_CalibrationNeverRaises ==
    call.op = "calculate_calibration_curve" =>
        /\ ~call.raised
        /\ CalibrationFails => call.result = EmptyCurve
        /\ ~CalibrationFails => call.result # EmptyCurve

\* C25: the labels were a list, not an array, with a high-risk sample among
\* them: the failure is none of the named ones, and the curve is empty.
C25_Witness ==
    /\ call.op = "calculate_calibration_curve"
    /\ ~call.y_true.ndarray
    /\ "high risk" \in Range(call.class_names)
    /\ \E i \in DOMAIN call.y_true.v :
           call.y_true.v[i] = IndexOf(call.class_names, "high risk") - 1
    /\ call.result = EmptyCurve
    /\ ~call.raised

(***************************************************************************)
(* Frame effects of predict.                                               *)
(***************************************************************************)
\* C26: a call of predict, successful or failing, leaves every attribute of
\* the bundle (feature_engineer, scaler, model, label_encoder, config, the
\* three risk indices, version and the explainer) as it found it, and leaves
\* the caller's frame as it was handed in.
C26_PredictLeavesBundleUnchanged ==
    call.op = "predict" =>
        /\ pipeline = call.bundle
        /\ call.data = call.X

(***************************************************************************)
(* Age categories.                                                         *)
(***************************************************************************)
\* C28: transform assigns Age_Category 0 to an age below 20, 1 to an age
\* from 20 to 35, both included, and 2 to an age above 35.
C28_AgeCategoryBoundaries ==
    (call.op = "transform" /\ ~call.raised) =>
        \A i \in DOMAIN call.engineered :
            LET Age == call.X.rows[i]["Age"].v
            IN  call.engineered[i].Age_Category =
                    IF Age < 20 THEN 0 ELSE IF Age <= 35 THEN 1 ELSE 2

(***************************************************************************)
(* The alert and the order of the classes.                                 *)
(***************************************************************************)
\* The pipeline whose label encoder holds the same classes in the order
\* `classes`, and the probability of each class moved to its new position.
Reordered(self, classes) ==
    MaternalRiskPipeline(classes, self.config, self.model, self.scaler,
                         self.shap_explainer)

ReorderedVector(self, classes, v) ==
    [i \in DOMAIN classes |-> v[IndexOf(self.classes, classes[i])]]

\* C29: the alert depends on the mapping from class name to probability
\* only: under any other order of the three classes, with the vector
\* reordered accordingly, _generate_alert returns the same level and the
\* same risk_category, vectors with a tie for the maximum included.
C29_AlertIndependentOfClassOrder ==
    (call.op = "generate_alert" /\ ~call.out.raised) =>
        \A classes \in ClassOrders :
            LET r == GenerateAlert(Reordered(pipeline, classes),
                                   [ndarray |-> TRUE,
                                    v |-> ReorderedVector(pipeline, classes, call.probs.v)])
            IN  /\ ~r.raised
                /\ r.alert.level = call.alert.level
                /\ r.alert.risk_category = call.alert.risk_category

====
